---- MODULE Spec2Model ----
(***************************************************************************)
(* A model of the text engine of bookworks: the filename sanitizer, the    *)
(* Markdown cleaner, the two chapter splitters and the content chunkers.   *)
(*                                                                         *)
(* A Python str is modelled as a sequence of one-character strings, so     *)
(* "## A" is <<"#", "#", " ", "A">>.  Every pure function of the source is *)
(* an operator computed the way the source computes it; each operation is  *)
(* one action that applies the function to the inputs chosen by Init.      *)
(***************************************************************************)
EXTENDS Integers, Sequences, FiniteSets, TLC

VARIABLES
    pc,          \* which operation has run ("start" before any)
    title,       \* argument of sanitize_filename
    content,     \* the document or chapter text given to the operation
    book_title,  \* argument of the splitters
    max_size,    \* arguments of chunk_chapter_content
    min_size,
    cleaned,     \* the text returned by the Markdown cleaner
    metadata,    \* the metadata title returned by the Markdown cleaner
    result,      \* the value returned by the last operation
    debug,       \* argument of process_markdown_content
    uploads,     \* the entries of UPLOAD_FOLDER
    temp_dir,    \* the names of the files of the temporary workspace
    pandoc_calls, \* how many times the converter has been run
    requests,    \* the POST requests of the index handler, each with its state
    output_dir   \* the files of the output directory of the TTS writers

vars == <<pc, title, content, book_title, max_size, min_size, cleaned, metadata,
          result, debug, uploads, temp_dir, pandoc_calls, requests, output_dir>>

\* The arguments: no operation changes them.
inputs == <<title, content, book_title, max_size, min_size, debug>>

\* The file system, the converter and the web requests: only the publisher,
\* the index handler and the TTS writers touch them.
files == <<uploads, temp_dir, pandoc_calls, requests, output_dir>>

\* The state of the file system and of the converter where no publisher runs.
NoFiles ==
    /\ debug = FALSE
    /\ uploads = {}
    /\ temp_dir = {}
    /\ pandoc_calls = 0
    /\ requests = <<>>
    /\ output_dir = {}

(***************************************************************************)
(* Bounds of the model.                                                    *)
(***************************************************************************)
MaxLines == 4

MaxTitleLen == 4

MaxParas == 3

MaxSizeBound == 4

MinSizeBound == 2

(***************************************************************************)
(* Python str primitives.                                                  *)
(***************************************************************************)
NL == "\n"

\* The characters str.strip(), str.split() and the regex class \s treat as
\* whitespace (the ASCII ones the inputs of the model can hold).
WS == {" ", "\t", "\n", "\r"}

Min(a, b) == IF a < b THEN a ELSE b

Max(a, b) == IF a > b THEN a ELSE b

\* s[a..b] (1-based, inclusive), the empty string when b < a.
Slice(s, a, b) == IF b < a THEN <<>> ELSE SubSeq(s, a, b)

\* str.startswith(prefix)
StartsWith(s, prefix) ==
    /\ Len(prefix) <= Len(s)
    /\ SubSeq(s, 1, Len(prefix)) = prefix

\* Index of the first character of s at or after p that is not in cs
\* (Len(s) + 1 when there is none).
RECURSIVE SkipIn(_, _, _)
SkipIn(s, p, cs) ==
    IF p > Len(s) THEN Len(s) + 1
    ELSE IF s[p] \in cs THEN SkipIn(s, p + 1, cs)
    ELSE p

\* Index of the first character of s at or after p that is in cs
\* (Len(s) + 1 when there is none).
RECURSIVE FindIn(_, _, _)
FindIn(s, p, cs) ==
    IF p > Len(s) THEN Len(s) + 1
    ELSE IF s[p] \in cs THEN p
    ELSE FindIn(s, p + 1, cs)

\* Index of the last character of s at or before p that is not in cs
\* (0 when there is none).
RECURSIVE SkipBack(_, _, _)
SkipBack(s, p, cs) ==
    IF p < 1 THEN 0
    ELSE IF s[p] \in cs THEN SkipBack(s, p - 1, cs)
    ELSE p

\* str.lstrip(chars), str.rstrip(chars), str.strip(chars)
LStripChars(s, cs) == Slice(s, SkipIn(s, 1, cs), Len(s))

RStripChars(s, cs) == Slice(s, 1, SkipBack(s, Len(s), cs))

StripChars(s, cs) == RStripChars(LStripChars(s, cs), cs)

\* str.lstrip(), str.rstrip(), str.strip()
LStrip(s) == LStripChars(s, WS)

RStrip(s) == RStripChars(s, WS)

Strip(s) == StripChars(s, WS)

\* str.split(sep) for a one-character separator: always at least one piece.
RECURSIVE SplitFrom(_, _, _)
SplitFrom(s, p, sep) ==
    LET e == FindIn(s, p, {sep})
    IN  IF e > Len(s) THEN <<Slice(s, p, Len(s))>>
        ELSE <<Slice(s, p, e - 1)>> \o SplitFrom(s, e + 1, sep)

Split(s, sep) == SplitFrom(s, 1, sep)

\* sep.join(parts)
RECURSIVE Join(_, _)
Join(parts, sep) ==
    IF parts = <<>> THEN <<>>
    ELSE IF Len(parts) = 1 THEN parts[1]
    ELSE parts[1] \o sep \o Join(Tail(parts), sep)

\* F(v) with v computed once, as a local variable is: an assignment
\* `x = v` followed by code F that reads x several times.
Once(F(_), v) == CHOOSE r \in {F(x) : x \in {v}} : TRUE

\* All sequences over S of length lo..hi.
SeqsOf(S, lo, hi) == UNION {[1..n -> S] : n \in lo..hi}

(***************************************************************************)
(* Chapter records.  The source's chapters are dicts {"title", "content"}; *)
(* the model adds what the splitter had in hand when it built the chapter: *)
(*   raw    the span before .strip(),                                      *)
(*   src    the indices (in content.split("\n")) of the lines of the span, *)
(*   head   <<h>> when heading line h opened the chapter, <<>> otherwise,  *)
(*   whole  TRUE for the whole-document chapter of the fallback branches.  *)
(***************************************************************************)
Chapter(t, c, raw, src, head, whole) ==
    [title |-> t, content |-> c, raw |-> raw, src |-> src, head |-> head,
     whole |-> whole]

\* `x or y` on strings: x unless it is empty.
OrElse(x, y) == IF x # <<>> THEN x ELSE y

(***************************************************************************)
(* Line-walk splitter: ChapterSplitter.split_chapters.                     *)
(***************************************************************************)
\* SaveChapter without the `if chapter_content:` filter.
SaveChapter_KeepEmpty(st, book) ==
    LET raw == Join(st.current_chapter, <<NL>>)
    IN  Append(st.chapters,
               [title |-> IF st.current_title # <<>> THEN st.current_title ELSE book,
                content |-> Strip(raw), raw |-> raw, src |-> st.current_src,
                head |-> st.current_head, whole |-> FALSE])

\* "Save previous chapter": join, strip, append when non-empty.
SaveChapter(st, book) ==
    LET raw == Join(st.current_chapter, <<NL>>)
        chapter_content == Strip(raw)
    IN  IF chapter_content # <<>>
        THEN Append(st.chapters,
                    Chapter(OrElse(st.current_title, book), chapter_content,
                            raw, st.current_src, st.current_head, FALSE))
        ELSE st.chapters

\* The title taken from a heading line: line.lstrip("#").strip()
HeadingTitle(line) == Strip(LStripChars(line, {"#"}))

\* WalkLine without `current_chapter = []` after a chapter is saved.
WalkLine_NoReset(st, line, i, book) ==
    LET add(s) == [s EXCEPT !.current_chapter = Append(@, line),
                            !.current_src = @ \cup {i}]
    IN  IF StartsWith(line, <<"#">>)
        THEN IF StartsWith(line, <<"#", " ">>) /\ ~st.found_first_header
             THEN [st EXCEPT !.found_first_header = TRUE]
             ELSE LET saved == IF st.current_chapter # <<>>
                               THEN [st EXCEPT !.chapters = SaveChapter(st, book)]
                               ELSE st
                  IN  add([saved EXCEPT !.current_title = HeadingTitle(line),
                                        !.current_head = <<line>>])
        ELSE add(st)

\* One iteration of `for line in lines`, i the index of the line.
WalkLine(st, line, i, book) ==
    LET add(s) == [s EXCEPT !.current_chapter = Append(@, line),
                            !.current_src = @ \cup {i}]
    IN  IF StartsWith(line, <<"#">>)
        THEN IF StartsWith(line, <<"#", " ">>) /\ ~st.found_first_header
             THEN [st EXCEPT !.found_first_header = TRUE]
             ELSE LET saved == IF st.current_chapter # <<>>
                               THEN [st EXCEPT !.chapters = SaveChapter(st, book),
                                               !.current_chapter = <<>>,
                                               !.current_src = {}]
                               ELSE st
                  IN  add([saved EXCEPT !.current_title = HeadingTitle(line),
                                        !.current_head = <<line>>])
        ELSE add(st)

RECURSIVE Walk(_, _, _, _)
Walk(st, lines, i, book) ==
    IF i > Len(lines) THEN st
    ELSE Walk(WalkLine(st, lines[i], i, book), lines, i + 1, book)

\* split_chapters without the `if not chapters:` fallback.
split_chapters_NoFallback(c, book) ==
    LET st0 == [chapters |-> <<>>, current_chapter |-> <<>>, current_src |-> {},
                current_title |-> <<>>, current_head |-> <<>>,
                found_first_header |-> FALSE]
        st == Walk(st0, Split(c, NL), 1, book)
    IN  IF st.current_chapter # <<>> THEN SaveChapter(st, book) ELSE st.chapters

split_chapters(c, book) ==
    LET lines == Split(c, NL)
        st0 == [chapters |-> <<>>, current_chapter |-> <<>>, current_src |-> {},
                current_title |-> <<>>, current_head |-> <<>>,
                found_first_header |-> FALSE]
        st == Walk(st0, lines, 1, book)
        chapters == IF st.current_chapter # <<>> THEN SaveChapter(st, book)
                    ELSE st.chapters
    IN  IF chapters = <<>>
        THEN <<Chapter(book, Strip(c), c, 1..Len(lines), <<>>, TRUE)>>
        ELSE chapters

(***************************************************************************)
(* Pattern-scan splitter: split_by_chapters, with the regular expression   *)
(*     ^#{1,2}\s+(.*?)$     (re.MULTILINE)                                 *)
(* matched the way the re module matches it.                               *)
(***************************************************************************)
\* ^ in MULTILINE mode: at the start of the string or right after "\n".
AtLineStart(s, p) == p = 1 \/ s[p - 1] = NL

\* The number of '#' that #{1,2} takes at p so that \s can follow: 2 when
\* two '#' and a whitespace follow, 1 when one '#' and a whitespace follow,
\* 0 when the pattern cannot match at p.
HashRun(s, p) ==
    IF p + 2 <= Len(s) /\ s[p] = "#" /\ s[p + 1] = "#" /\ s[p + 2] \in WS THEN 2
    ELSE IF p + 1 <= Len(s) /\ s[p] = "#" /\ s[p + 1] \in WS THEN 1
    ELSE 0

\* The match starting at p, if any: \s+ is greedy and takes every whitespace
\* character that follows the markers, newlines included; (.*?)$ then takes
\* the rest of the line it stopped in.
MatchAt(s, p) ==
    LET h == HashRun(s, p)
        q == SkipIn(s, p + h, WS)
        e == FindIn(s, q, {NL})
    IN  [ok |-> AtLineStart(s, p) /\ h > 0, start |-> p, stop |-> e,
         group1 |-> Slice(s, q, e - 1)]

\* list(chapter_pattern.finditer(content)): leftmost matches, each search
\* resuming where the previous match ended.
RECURSIVE FindIter(_, _)
FindIter(s, p) ==
    IF p > Len(s) THEN <<>>
    ELSE LET m == MatchAt(s, p)
         IN  IF m.ok THEN <<m>> \o FindIter(s, m.stop)
             ELSE FindIter(s, p + 1)

\* The index of the line of content.split("\n") that holds position p.
LineOf(s, p) == 1 + Cardinality({k \in 1..(p - 1) : s[k] = NL})

\* split_by_chapters with every chapter running to the end of the content.
split_by_chapters_ToEnd(c, book) ==
    LET chapter_matches == FindIter(c, 1)
        n == Len(chapter_matches)
        one(i) ==
            LET chapter_start == chapter_matches[i].start
                raw == Slice(c, chapter_start, Len(c))
            IN  Chapter(Strip(chapter_matches[i].group1), Strip(raw), raw,
                        LineOf(c, chapter_start)..LineOf(c, Len(c)),
                        <<Slice(c, chapter_start,
                                FindIn(c, chapter_start, {NL}) - 1)>>,
                        FALSE)
    IN  IF n = 0
        THEN <<Chapter(book, c, c, 1..Len(Split(c, NL)), <<>>, TRUE)>>
        ELSE [i \in 1..n |-> one(i)]

split_by_chapters(c, book) ==
    LET chapter_matches == FindIter(c, 1)
        n == Len(chapter_matches)
        one(i) ==
            LET chapter_start == chapter_matches[i].start
                chapter_title == Strip(chapter_matches[i].group1)
                chapter_end == IF i < n THEN chapter_matches[i + 1].start
                               ELSE Len(c) + 1
                raw == Slice(c, chapter_start, chapter_end - 1)
            IN  Chapter(chapter_title, Strip(raw), raw,
                        LineOf(c, chapter_start)..LineOf(c, chapter_end - 1),
                        <<Slice(c, chapter_start,
                                FindIn(c, chapter_start, {NL}) - 1)>>,
                        FALSE)
    IN  IF n = 0
        THEN <<Chapter(book, c, c, 1..Len(Split(c, NL)), <<>>, TRUE)>>
        ELSE [i \in 1..n |-> one(i)]

(***************************************************************************)
(* The splitters' inputs: documents of up to MaxLines lines, each line one *)
(* of the shapes below (prose, blank, headings of level 1 to 3 with and    *)
(* without text, with and without the space after the markers).            *)
(***************************************************************************)
LineShapes ==
    { <<>>, <<" ">>, <<"a">>, <<" ", "b">>,
      <<"#">>, <<"#", " ", "T">>,
      <<"#", "#", " ">>, <<"#", "#", " ", "A">>, <<"#", "#", "C", " ">>,
      <<"#", "#", "#", " ", "d">> }

Docs == SeqsOf(LineShapes, 1, MaxLines)

BookTitles == { <<"B">> }

InitSplit ==
    /\ pc = "start"
    /\ NoFiles
    /\ content \in {Join(d, <<NL>>) : d \in Docs}
    /\ book_title \in BookTitles
    /\ title = <<>>
    /\ max_size = 0
    /\ min_size = 0
    /\ cleaned = <<>>
    /\ metadata = <<>>
    /\ result = <<>>

SplitChapters ==
    /\ pc = "start"
    /\ result' = split_chapters(content, book_title)
    /\ pc' = "split_chapters"
    /\ UNCHANGED <<inputs, files, cleaned, metadata>>

SplitByChapters ==
    /\ pc = "start"
    /\ result' = split_by_chapters(content, book_title)
    /\ pc' = "split_by_chapters"
    /\ UNCHANGED <<inputs, files, cleaned, metadata>>

NextSplit == SplitChapters \/ SplitByChapters

SpecSplit == InitSplit /\ [][NextSplit]_vars

(***************************************************************************)
(* Properties of the chapter splitters (checked under SpecSplit).          *)
(***************************************************************************)
SplitDone == pc \in {"split_chapters", "split_by_chapters"}

Lines(c) == Split(c, NL)

IsBlank(line) == Strip(line) = <<>>

IsHeadingLine(line) == StartsWith(line, <<"#">>)

\* No line of c starts with '#'.
NoHeading(c) == \A i \in 1..Len(Lines(c)) : ~IsHeadingLine(Lines(c)[i])

\* The subsequence of the non-blank elements of a sequence of lines.
RECURSIVE NonBlank(_)
NonBlank(ls) ==
    IF ls = <<>> THEN <<>>
    ELSE IF IsBlank(Head(ls)) THEN NonBlank(Tail(ls))
    ELSE <<Head(ls)>> \o NonBlank(Tail(ls))

\* The concatenation of a sequence of strings.
RECURSIVE Concat(_)
Concat(parts) == IF parts = <<>> THEN <<>> ELSE Head(parts) \o Concat(Tail(parts))

\* The elements of a set of line indices, in increasing order.
RECURSIVE Sorted(_)
Sorted(S) ==
    IF S = {} THEN <<>>
    ELSE LET m == CHOOSE x \in S : \A y \in S : x <= y
         IN  <<m>> \o Sorted(S \ {m})

RawSpans(chs) == [i \in 1..Len(chs) |-> chs[i].raw]

\* C2: both splitters return at least one chapter for every content, the
\* empty string and heading-only or whitespace-only content included.
C2_AtLeastOneChapter == SplitDone => Len(result) >= 1

C2_Witness ==
    /\ SplitDone
    /\ content # <<>>
    /\ \A i \in 1..Len(Lines(content)) :
          IsHeadingLine(Lines(content)[i]) \/ IsBlank(Lines(content)[i])
    /\ Len(result) = 1

\* C3 (as claimed): when no line of the content is a heading, each splitter
\* returns exactly one chapter, titled book_title, whose content is the
\* input trimmed of leading and trailing whitespace.
C3_NoHeadingOneTrimmedChapter ==
    (SplitDone /\ NoHeading(content)) =>
        /\ Len(result) = 1
        /\ result[1].title = book_title
        /\ result[1].content = Strip(content)

\* The place where the first chapter starts: the first regex match for the
\* pattern scan, the first line starting with '#' for the line walk
\* (0 when the content has none).
FirstHeadingPos(c) ==
    IF pc = "split_by_chapters"
    THEN IF FindIter(c, 1) = <<>> THEN 0 ELSE FindIter(c, 1)[1].start
    ELSE LET hs == {p \in 1..Len(c) : AtLineStart(c, p) /\ c[p] = "#"}
         IN  IF hs = {} THEN 0 ELSE CHOOSE p \in hs : \A q \in hs : p <= q

\* The chapters' untrimmed spans put back together: the pattern scan's spans
\* keep their newlines, the line walk's spans are lists of lines.
RawText(chs) ==
    IF pc = "split_by_chapters" THEN Concat(RawSpans(chs))
    ELSE Join(RawSpans(chs), <<NL>>)

\* C4 (as claimed): for both splitters the chapters' untrimmed spans, in
\* list order, reconstruct the input from its first heading line to its end,
\* so the preamble before the first heading is in no chapter.
C4_SpansReconstructFromFirstHeading ==
    (SplitDone /\ FirstHeadingPos(content) > 0) =>
        RawText(result) = Slice(content, FirstHeadingPos(content), Len(content))

\* The index of the line the line walk consumes as the book title: the first
\* line starting with "# " (0 when there is none).
TitleLine(ls) ==
    LET ts == {i \in 1..Len(ls) : StartsWith(ls[i], <<"#", " ">>)}
    IN  IF ts = {} THEN 0 ELSE CHOOSE i \in ts : \A j \in ts : i <= j

WithoutLine(ls, k) ==
    IF k = 0 THEN ls ELSE SubSeq(ls, 1, k - 1) \o SubSeq(ls, k + 1, Len(ls))

\* C4 (amended): the pattern scan's untrimmed spans concatenate to the input
\* from its first heading match to its end (its preamble is dropped); the
\* line walk drops no preamble: unless it fell back to the whole document,
\* its spans hold, in order and once each, every non-blank input line but
\* the consumed "# " title line, and non-blank text before the first heading
\* is the first chapter, titled book_title and opened by no heading.
C4_SpansPerVariant ==
    /\ (pc = "split_by_chapters" /\ FirstHeadingPos(content) > 0) =>
          Concat(RawSpans(result)) =
              Slice(content, FirstHeadingPos(content), Len(content))
    /\ (pc = "split_chapters" /\ ~result[1].whole) =>
          /\ NonBlank(Lines(Join(RawSpans(result), <<NL>>))) =
                NonBlank(WithoutLine(Lines(content), TitleLine(Lines(content))))
          /\ (~IsHeadingLine(NonBlank(Lines(content))[1])) =>
                /\ result[1].title = book_title
                /\ result[1].head = <<>>
                /\ Lines(result[1].content)[1] = Strip(NonBlank(Lines(content))[1])

C4_Witness ==
    /\ pc = "split_chapters"
    /\ Len(result) >= 2
    /\ result[1].head = <<>>
    /\ result[1].title = book_title
    /\ TitleLine(Lines(content)) > 0

\* C5: for both splitters the chapters are in document order and no input
\* line is in two chapters: every line of chapter i precedes every line of
\* chapter j > i, and each chapter's content is the trimmed text of its own
\* lines.
C5_DocumentOrderNoDuplication ==
    SplitDone =>
        /\ \A i, j \in 1..Len(result) :
              i < j => \A a \in result[i].src : \A b \in result[j].src : a < b
        /\ \A i \in 1..Len(result) :
              LET own == Sorted(result[i].src)
                  text == Join([k \in 1..Len(own) |-> Lines(content)[own[k]]],
                               <<NL>>)
              IN  /\ result[i].src \subseteq 1..Len(Lines(content))
                  /\ Strip(result[i].raw) = Strip(text)
                  /\ result[i].whole \/ result[i].content = Strip(text)

C5_Witness ==
    /\ SplitDone
    /\ Len(result) >= 3
    /\ \E i \in 1..Len(Lines(content)) : \A k \in 1..Len(result) : i \notin result[k].src

\* C6 (as claimed): in both splitters a chapter opened by a heading line is
\* titled with that line's text, '#' markers and surrounding whitespace
\* stripped, and with book_title when that text is empty.
C6_TitleFromOpeningHeading ==
    SplitDone =>
        \A i \in 1..Len(result) :
            result[i].head # <<>> =>
                result[i].title = OrElse(HeadingTitle(result[i].head[1]), book_title)

\* C7: the line walk returns no chapter with empty trimmed content, except
\* when nothing was left to return: then the result is the single chapter
\* titled book_title that holds the whole trimmed document.
C7_NoEmptyChapterButFallback ==
    pc = "split_chapters" =>
        \A i \in 1..Len(result) :
            IF result[i].whole
            THEN /\ Len(result) = 1
                 /\ result[1].title = book_title
                 /\ result[1].content = Strip(content)
            ELSE Strip(result[i].content) # <<>>

C7_Witness ==
    /\ pc = "split_chapters"
    /\ Len(Lines(content)) >= 2
    /\ IsBlank(Lines(content)[1])
    /\ IsBlank(Lines(content)[Len(Lines(content))])
    /\ ~result[1].whole
    /\ 1 \notin result[1].src

(***************************************************************************)
(* Filename sanitizer: sanitize_filename (utils/helpers.py, bw_utils.py).  *)
(***************************************************************************)
\* The character class [\r\n\t/\\:*?"<>|]
Forbidden == {"\r", "\n", "\t", "/", "\\", ":", "*", "?", "\"", "<", ">", "|"}

\* re.sub(r'[\r\n\t/\\:*?"<>|]', "-", s)
ReplaceForbidden(s) == [i \in 1..Len(s) |-> IF s[i] \in Forbidden THEN "-" ELSE s[i]]

\* re.sub(r"-+", "-", s)
RECURSIVE CollapseHyphens(_)
CollapseHyphens(s) ==
    IF s = <<>> THEN <<>>
    ELSE IF Len(s) >= 2 /\ s[1] = "-" /\ s[2] = "-" THEN CollapseHyphens(Tail(s))
    ELSE <<s[1]>> \o CollapseHyphens(Tail(s))

Untitled == <<"u", "n", "t", "i", "t", "l", "e", "d">>

\* sanitize_filename with the strip done before the replacement.
sanitize_filename_StripFirst(t) ==
    LET sanitized == CollapseHyphens(ReplaceForbidden(StripChars(t, {"-", " "})))
    IN  IF sanitized # <<>> THEN sanitized ELSE Untitled

sanitize_filename(t) ==
    LET sanitized == StripChars(CollapseHyphens(ReplaceForbidden(t)), {"-", " "})
    IN  OrElse(sanitized, Untitled)

\* The titles of the model: every string of up to MaxTitleLen characters
\* over a letter, the space, the hyphen and four of the forbidden characters.
TitleChars == {"a", " ", "-", "/", ":", "\n", "\t"}

InitSanitize ==
    /\ pc = "start"
    /\ NoFiles
    /\ title \in SeqsOf(TitleChars, 0, MaxTitleLen)
    /\ content = <<>>
    /\ book_title = <<>>
    /\ max_size = 0
    /\ min_size = 0
    /\ cleaned = <<>>
    /\ metadata = <<>>
    /\ result = <<>>

\* bookworks.utils.helpers.sanitize_filename
SanitizeHelpers ==
    /\ pc = "start"
    /\ result' = sanitize_filename(title)
    /\ pc' = "helpers.sanitize_filename"
    /\ UNCHANGED <<inputs, files, cleaned, metadata>>

\* bookworks.bw_utils.sanitize_filename (the same three statements)
SanitizeBwUtils ==
    /\ pc = "start"
    /\ result' = sanitize_filename(title)
    /\ pc' = "bw_utils.sanitize_filename"
    /\ UNCHANGED <<inputs, files, cleaned, metadata>>

NextSanitize == SanitizeHelpers \/ SanitizeBwUtils

SpecSanitize == InitSanitize /\ [][NextSanitize]_vars

SanitizeDone == pc \in {"helpers.sanitize_filename", "bw_utils.sanitize_filename"}

\* C1: for every title, the empty one and those made only of spaces, hyphens
\* and forbidden characters included, the sanitized name holds no forbidden
\* character and no "--", neither starts nor ends with '-' or ' ', and is
\* never empty: it is "untitled" when the title holds nothing else.
C1_SanitizedNameIsSafe ==
    SanitizeDone =>
        /\ \A i \in 1..Len(result) : result[i] \notin Forbidden
        /\ \A i \in 1..(Len(result) - 1) : ~(result[i] = "-" /\ result[i + 1] = "-")
        /\ result # <<>>
        /\ result[1] \notin {"-", " "}
        /\ result[Len(result)] \notin {"-", " "}
        /\ (\A i \in 1..Len(title) : title[i] \in Forbidden \cup {"-", " "}) =>
              result = Untitled

C1_Witness ==
    /\ SanitizeDone
    /\ Len(title) >= 3
    /\ \A i \in 1..Len(title) : title[i] \in Forbidden \cup {"-", " "}
    /\ \E i \in 1..Len(title) : title[i] \in Forbidden
    /\ result = Untitled

(***************************************************************************)
(* Content chunker: chunk_chapter_content of the two chapter-chunking      *)
(* experiment scripts.  The source returns a list of strings; the model    *)
(* keeps with each chunk how it was packed:                                *)
(*   units   the number of paragraphs (sentences) joined into it,          *)
(*   before  len(current_chunk) when its last unit was appended.           *)
(***************************************************************************)
Chunk(t, n, b) == [text |-> t, units |-> n, before |-> b]

\* re.split(r"\n\n+", s): the pieces between maximal runs of 2+ newlines.
RECURSIVE ParagraphsFrom(_, _, _)
ParagraphsFrom(s, p, start) ==
    IF p > Len(s) THEN <<Slice(s, start, Len(s))>>
    ELSE IF s[p] = NL /\ p + 1 <= Len(s) /\ s[p + 1] = NL
    THEN LET e == SkipIn(s, p, {NL})
         IN  <<Slice(s, start, p - 1)>> \o ParagraphsFrom(s, e, e)
    ELSE ParagraphsFrom(s, p + 1, start)

SplitParagraphs(s) == ParagraphsFrom(s, 1, 1)

\* re.split(r"(?<=[.!?])\s+", s): the pieces between the whitespace runs
\* that follow '.', '!' or '?'.
RECURSIVE SentencesFrom(_, _, _)
SentencesFrom(s, p, start) ==
    IF p > Len(s) THEN <<Slice(s, start, Len(s))>>
    ELSE IF p > 1 /\ s[p - 1] \in {".", "!", "?"} /\ s[p] \in WS
    THEN LET e == SkipIn(s, p, WS)
         IN  <<Slice(s, start, p - 1)>> \o SentencesFrom(s, e, e)
    ELSE SentencesFrom(s, p + 1, start)

SplitSentences(s) == SentencesFrom(s, 1, 1)

\* PackUnit with the joiner's length left out of the size test.
PackUnit_NoSlack(st, unit, sep, slack, max, min) ==
    IF Len(st.cur) + Len(unit) > max /\ Len(st.cur) >= min
    THEN [chunks |-> Append(st.chunks, Chunk(Strip(st.cur), st.units, st.before)),
          cur |-> unit, units |-> 1, before |-> 0]
    ELSE IF st.cur # <<>>
    THEN [st EXCEPT !.cur = @ \o sep \o unit, !.units = @ + 1,
                    !.before = Len(st.cur)]
    ELSE [st EXCEPT !.cur = unit, !.units = 1, !.before = 0]

\* One iteration of the packing loops (`for paragraph in paragraphs`, `for
\* sentence in sentences`): sep is the joiner and slack the number the
\* source adds for it (2 with "\n\n", 1 with " ").
PackUnit(st, unit, sep, slack, max, min) ==
    IF Len(st.cur) + Len(unit) + slack > max /\ Len(st.cur) >= min
    THEN [chunks |-> Append(st.chunks, Chunk(Strip(st.cur), st.units, st.before)),
          cur |-> unit, units |-> 1, before |-> 0]
    ELSE IF st.cur # <<>>
    THEN [st EXCEPT !.cur = @ \o sep \o unit, !.units = @ + 1,
                    !.before = Len(st.cur)]
    ELSE [st EXCEPT !.cur = unit, !.units = 1, !.before = 0]

RECURSIVE PackFrom(_, _, _, _, _, _, _)
PackFrom(st, units, i, sep, slack, max, min) ==
    IF i > Len(units) THEN st
    ELSE PackFrom(PackUnit(st, units[i], sep, slack, max, min),
                  units, i + 1, sep, slack, max, min)

\* Pack without the trailing append of the running chunk.
Pack_NoFinal(units, sep, slack, max, min) ==
    PackFrom([chunks |-> <<>>, cur |-> <<>>, units |-> 0, before |-> 0],
             units, 1, sep, slack, max, min).chunks

\* A whole packing loop with its trailing `if current_chunk: append`.
Pack(units, sep, slack, max, min) ==
    LET st == PackFrom([chunks |-> <<>>, cur |-> <<>>, units |-> 0, before |-> 0],
                       units, 1, sep, slack, max, min)
    IN  IF st.cur # <<>>
        THEN Append(st.chunks, Chunk(Strip(st.cur), st.units, st.before))
        ELSE st.chunks

\* SentenceFallback with the size limit one lower.
RECURSIVE SentenceFallback_OneLower(_, _, _, _)
SentenceFallback_OneLower(chunks, i, max, min) ==
    IF i > Len(chunks) THEN <<>>
    ELSE (IF Len(chunks[i].text) > max - 1
          THEN Pack(SplitSentences(chunks[i].text), <<" ">>, 1, max - 1, min)
          ELSE <<chunks[i]>>)
         \o SentenceFallback_OneLower(chunks, i + 1, max, min)

\* The second loop: a chunk still longer than max_size is packed again from
\* its sentences, the others are kept.
RECURSIVE SentenceFallback(_, _, _, _)
SentenceFallback(chunks, i, max, min) ==
    IF i > Len(chunks) THEN <<>>
    ELSE (IF Len(chunks[i].text) > max
          THEN Pack(SplitSentences(chunks[i].text), <<" ">>, 1, max, min)
          ELSE <<chunks[i]>>)
         \o SentenceFallback(chunks, i + 1, max, min)

\* The function after its early return.
ChunkSplit(c, max, min) ==
    SentenceFallback(Pack(SplitParagraphs(c), <<NL, NL>>, 2, max, min), 1, max, min)

\* clean-markdown-for-tts.py
chunk_chapter_content(c, max, min) ==
    IF max <= 0 \/ Len(c) <= max THEN <<Chunk(c, 1, 0)>>
    ELSE ChunkSplit(c, max, min)

\* clean-markdown-for-tts-chunked.py: the early return tests the length only.
chunk_chapter_content_chunked(c, max, min) ==
    IF Len(c) <= max THEN <<Chunk(c, 1, 0)>>
    ELSE ChunkSplit(c, max, min)

\* The chunkers' inputs: up to MaxParas paragraphs joined by blank lines,
\* each one of the shapes below (one to three sentences, leading whitespace,
\* empty, a third newline), with max_size and min_size from -1 up.
ParaShapes ==
    { <<>>, <<"a">>, <<"b", "b">>, <<".", " ", ".">>,
      <<".", " ", ".", " ", ".">>, <<" ", "a">>, <<NL, "a">> }

ChunkInputs == {Join(ps, <<NL, NL>>) : ps \in SeqsOf(ParaShapes, 1, MaxParas)}

InitChunk ==
    /\ pc = "start"
    /\ NoFiles
    /\ content \in ChunkInputs
    /\ max_size \in -1..MaxSizeBound
    /\ min_size \in -1..MinSizeBound
    /\ title = <<>>
    /\ book_title = <<>>
    /\ cleaned = <<>>
    /\ metadata = <<>>
    /\ result = <<>>

ChunkChapterContent ==
    /\ pc = "start"
    /\ result' = chunk_chapter_content(content, max_size, min_size)
    /\ pc' = "chunk_chapter_content"
    /\ UNCHANGED <<inputs, files, cleaned, metadata>>

ChunkChapterContentChunked ==
    /\ pc = "start"
    /\ result' = chunk_chapter_content_chunked(content, max_size, min_size)
    /\ pc' = "chunk_chapter_content_chunked"
    /\ UNCHANGED <<inputs, files, cleaned, metadata>>

NextChunk == ChunkChapterContent \/ ChunkChapterContentChunked

SpecChunk == InitChunk /\ [][NextChunk]_vars

ChunkDone == pc \in {"chunk_chapter_content", "chunk_chapter_content_chunked"}

Texts(chunks) == [i \in 1..Len(chunks) |-> chunks[i].text]

\* C9 (as claimed): for max_size > 0 and every min_size, a chunk longer than
\* max_size is a single paragraph or a single sentence; a chunk of two or
\* more paragraphs or sentences is never longer than max_size.
C9_OnlySingleUnitsExceedMax ==
    (ChunkDone /\ max_size > 0) =>
        \A i \in 1..Len(result) :
            Len(result[i].text) > max_size => result[i].units <= 1

\* C9 (amended): for max_size > 0, a chunk longer than max_size is a single
\* paragraph or sentence, or its last paragraph or sentence was appended to
\* a running chunk still shorter than min_size; so when min_size <= 1 a
\* chunk of two or more paragraphs or sentences is never longer than
\* max_size.
C9_ExceedMaxOnlySingleOrBelowMin ==
    (ChunkDone /\ max_size > 0) =>
        \A i \in 1..Len(result) :
            Len(result[i].text) > max_size =>
                \/ result[i].units <= 1
                \/ result[i].before < min_size /\ min_size > 1

C9_Witness ==
    /\ ChunkDone
    /\ max_size > 0
    /\ \E i \in 1..Len(result) :
          /\ result[i].units >= 2
          /\ Len(result[i].text) > max_size
          /\ result[i].before < min_size
    /\ \E i \in 1..Len(result) :
          result[i].units >= 2 /\ Len(result[i].text) <= max_size

\* C10 (as claimed): whenever max_size <= 0 or len(content) <= max_size,
\* each chunker returns the one-element list [content].
C10_WholeContentWhenDisabledOrShort ==
    (ChunkDone /\ (max_size <= 0 \/ Len(content) <= max_size)) =>
        Texts(result) = <<content>>

(***************************************************************************)
(* Markdown cleaner: clean_markdown_content (utils/helpers.py).            *)
(***************************************************************************)
\* content.replace("\r\n", "\n")
RECURSIVE NormalizeLineEndings(_)
NormalizeLineEndings(s) ==
    IF s = <<>> THEN <<>>
    ELSE IF Len(s) >= 2 /\ s[1] = "\r" /\ s[2] = NL
    THEN <<NL>> \o NormalizeLineEndings(SubSeq(s, 3, Len(s)))
    ELSE <<s[1]>> \o NormalizeLineEndings(Tail(s))

\* text.split(): the maximal runs of non-whitespace characters.
RECURSIVE WordsFrom(_, _)
WordsFrom(s, p) ==
    LET b == SkipIn(s, p, WS)
        e == FindIn(s, b, WS)
    IN  IF b > Len(s) THEN <<>>
        ELSE <<Slice(s, b, e - 1)>> \o WordsFrom(s, e)

\* " ".join(text.split())
CollapseWhitespace(text) == Join(WordsFrom(text, 1), <<" ">>)

\* The match of \[([\s\S]*?)\]\((.*?)\) starting at p, if any: the lazy
\* groups make it close at the first "](" after which a ')' comes before
\* the end of the line, and at the first such ')'.
LinkAt(s, p) ==
    LET closes(k) == LET j == FindIn(s, k + 2, {")", NL})
                     IN  s[k] = "]" /\ s[k + 1] = "(" /\ j <= Len(s) /\ s[j] = ")"
        ks == {k \in (p + 1)..(Len(s) - 2) : closes(k)}
        k == CHOOSE x \in ks : \A y \in ks : x <= y
        j == FindIn(s, k + 2, {")"})
    IN  IF s[p] = "[" /\ ks # {}
        THEN [ok |-> TRUE, text |-> Slice(s, p + 1, k - 1),
              url |-> Slice(s, k + 2, j - 1), stop |-> j]
        ELSE [ok |-> FALSE, text |-> <<>>, url |-> <<>>, stop |-> p]

\* clean_link with the link text left as it is.
CleanLink_KeepText(m) == <<"[">> \o m.text \o <<"]", "(">> \o m.url \o <<")">>

\* clean_link: "[" cleaned text "](" url ")"
CleanLink(m) == <<"[">> \o CollapseWhitespace(m.text) \o <<"]", "(">> \o m.url \o <<")">>

\* re.sub(r"\[([\s\S]*?)\]\((.*?)\)", clean_link, content)
RECURSIVE FixLinksFrom(_, _)
FixLinksFrom(s, p) ==
    IF p > Len(s) THEN <<>>
    ELSE LET m == LinkAt(s, p)
         IN  IF m.ok THEN CleanLink(m) \o FixLinksFrom(s, m.stop + 1)
             ELSE <<s[p]>> \o FixLinksFrom(s, p + 1)

FixLinks(s) == FixLinksFrom(s, 1)

\* line.strip().startswith(("#", "*", "-", "+"))
IsSpecial(line) == Strip(line) # <<>> /\ Strip(line)[1] \in {"#", "*", "-", "+"}

\* ReflowLine with heading and list lines dropped like blank lines.
ReflowLine_DropSpecial(lines, i) ==
    LET line == RStrip(lines[i])
        next_is_empty == i + 1 > Len(lines) \/ Strip(lines[i + 1]) = <<>>
    IN  IF line = <<>> \/ IsSpecial(line) THEN <<>>
        ELSE IF next_is_empty THEN line
        ELSE line \o <<NL>>

\* ReflowLine without the heading and list-item exemption.
ReflowLine_AlwaysBreak(lines, i) ==
    LET line == RStrip(lines[i])
        next_is_empty == i + 1 > Len(lines) \/ Strip(lines[i + 1]) = <<>>
    IN  IF line = <<>> THEN <<>>
        ELSE IF next_is_empty THEN line
        ELSE line \o <<NL>>

\* One iteration of `for i, line in enumerate(lines)`: what is appended to
\* result.
ReflowLine(lines, i) ==
    LET line == RStrip(lines[i])
        is_special == IsSpecial(line)
        next_is_empty == i + 1 > Len(lines) \/ Strip(lines[i + 1]) = <<>>
    IN  IF line = <<>> THEN <<>>
        ELSE IF is_special \/ next_is_empty THEN line
        ELSE line \o <<NL>>

\* The reflow loop and "\n".join(result)
Reflow(s) ==
    LET lines == Split(s, NL)
    IN  Join([i \in 1..Len(lines) |-> ReflowLine(lines, i)], <<NL>>)

UntitledDocument ==
    <<"U", "n", "t", "i", "t", "l", "e", "d", " ",
      "D", "o", "c", "u", "m", "e", "n", "t">>

\* ExtractTitle taking the last match instead of the first.
ExtractTitle_Last(s) ==
    LET ps == {p \in 1..(Len(s) - 1) :
                  AtLineStart(s, p) /\ s[p] = "#" /\ s[p + 1] = " "}
        p == CHOOSE x \in ps : \A y \in ps : x >= y
    IN  IF ps = {} THEN UntitledDocument
        ELSE Slice(s, p + 2, FindIn(s, p + 2, {NL}) - 1)

\* re.search(r"^# (.*?)$", s, re.MULTILINE): group 1 of the first match, or
\* "Untitled Document".
ExtractTitle(s) ==
    LET ps == {p \in 1..(Len(s) - 1) :
                  AtLineStart(s, p) /\ s[p] = "#" /\ s[p + 1] = " "}
        p == CHOOSE x \in ps : \A y \in ps : x <= y
    IN  IF ps = {} THEN UntitledDocument
        ELSE Slice(s, p + 2, FindIn(s, p + 2, {NL}) - 1)

clean_markdown_content(c) ==
    LET modified_content == Reflow(FixLinks(NormalizeLineEndings(c)))
    IN  [content |-> modified_content, title |-> ExtractTitle(modified_content)]

(***************************************************************************)
(* The round trip: the Markdown cleaner, then the line-walk splitter on    *)
(* the cleaned text.  The documents are up to MaxLines lines, each one of  *)
(* the shapes below: "##" headings with text, prose, blank lines.          *)
(***************************************************************************)
RoundTripShapes ==
    { <<>>, <<" ">>, <<"a">>, <<" ", "b">>, <<"c", " ", "\r">>,
      <<"#", "#", " ", "A">>, <<"#", "#", "C", " ">> }

InitRoundTrip ==
    /\ pc = "start"
    /\ NoFiles
    /\ content \in {Join(d, <<NL>>) : d \in SeqsOf(RoundTripShapes, 1, MaxLines)}
    /\ book_title \in BookTitles
    /\ title = <<>>
    /\ max_size = 0
    /\ min_size = 0
    /\ cleaned = <<>>
    /\ metadata = <<>>
    /\ result = <<>>

CleanMarkdownContent ==
    /\ pc = "start"
    /\ cleaned' = clean_markdown_content(content).content
    /\ metadata' = clean_markdown_content(content).title
    /\ pc' = "cleaned"
    /\ UNCHANGED <<inputs, files, result>>

SplitCleaned ==
    /\ pc = "cleaned"
    /\ result' = split_chapters(cleaned, book_title)
    /\ pc' = "split"
    /\ UNCHANGED <<inputs, files, cleaned, metadata>>

NextRoundTrip == CleanMarkdownContent \/ SplitCleaned

SpecRoundTrip == InitRoundTrip /\ [][NextRoundTrip]_vars

(***************************************************************************)
(* Properties of the round trip (checked under SpecRoundTrip).             *)
(***************************************************************************)
\* The heading lines of c are exactly two "##" headings with text.
TwoHeadings(c) ==
    LET hs == {i \in 1..Len(Lines(c)) : IsHeadingLine(Lines(c)[i])}
    IN  /\ Cardinality(hs) = 2
        /\ \A i \in hs :
              /\ StartsWith(Lines(c)[i], <<"#", "#">>)
              /\ ~StartsWith(Lines(c)[i], <<"#", "#", "#">>)
              /\ HeadingTitle(Lines(c)[i]) # <<>>

\* The texts of the heading lines of c, in document order.
HeadingTexts(c) ==
    LET hs == Sorted({i \in 1..Len(Lines(c)) : IsHeadingLine(Lines(c)[i])})
    IN  [k \in 1..Len(hs) |-> HeadingTitle(Lines(c)[hs[k]])]

\* A non-blank line comes before the first heading line of c.
HasPreamble(c) ==
    \E i \in 1..Len(Lines(c)) :
        /\ ~IsBlank(Lines(c)[i])
        /\ \A j \in 1..i : ~IsHeadingLine(Lines(c)[j])

\* The non-blank lines of a text, each trimmed.
TextLines(c) ==
    LET ls == NonBlank(Lines(c)) IN [k \in 1..Len(ls) |-> Strip(ls[k])]

\* The non-blank lines of the chapters' contents, in list order.
RECURSIVE ChapterTextLines(_)
ChapterTextLines(chs) ==
    IF chs = <<>> THEN <<>>
    ELSE TextLines(Head(chs).content) \o ChapterTextLines(Tail(chs))

Titles(chs) == [i \in 1..Len(chs) |-> chs[i].title]

\* C8 (as claimed): a document whose headings are exactly two "##" headings
\* with text, cleaned and then split, yields exactly 2 chapters titled with
\* the two heading texts in order, and every line of the document occurs
\* exactly once in the chapters.
C8_TwoHeadingsTwoChapters ==
    (pc = "split" /\ TwoHeadings(content)) =>
        /\ Len(result) = 2
        /\ Titles(result) = HeadingTexts(content)
        /\ ChapterTextLines(result) = TextLines(content)

\* C8 (amended): such a document yields the 2 chapters titled with the two
\* heading texts in order, preceded by one more chapter, titled book_title,
\* exactly when prose comes before the first heading; every non-blank line
\* of the document occurs exactly once in the chapters, in document order.
C8_TwoHeadingsPlusPreamble ==
    (pc = "split" /\ TwoHeadings(content)) =>
        /\ IF HasPreamble(content)
           THEN Titles(result) = <<book_title>> \o HeadingTexts(content)
           ELSE Titles(result) = HeadingTexts(content)
        /\ ChapterTextLines(result) = TextLines(content)

C8_Witness ==
    /\ pc = "split"
    /\ TwoHeadings(content)
    /\ HasPreamble(content)
    /\ Len(result) = 3
    /\ Len(TextLines(content)) = 4

(***************************************************************************)
(* Properties of the chunkers' content (checked under SpecChunk).          *)
(***************************************************************************)
\* text.split(): the words of a text.
Words(s) == WordsFrom(s, 1)

\* The words of the chunks, in list order.
RECURSIVE ChunkWords(_)
ChunkWords(chunks) ==
    IF chunks = <<>> THEN <<>>
    ELSE Words(Head(chunks).text) \o ChunkWords(Tail(chunks))

\* The joiners of the two packing loops.
Separators == {<<NL, NL>>, <<" ">>}

\* texts joined with seps[i] between texts[i] and texts[i + 1].
RECURSIVE JoinWith(_, _, _)
JoinWith(texts, seps, i) ==
    IF i > Len(texts) THEN <<>>
    ELSE IF i = Len(texts) THEN texts[i]
    ELSE texts[i] \o seps[i] \o JoinWith(texts, seps, i + 1)

\* Some choice of a joiner at every chunk boundary gives back c.
Reconstructs(texts, c) ==
    \E seps \in [1..(Len(texts) - 1) -> Separators] : JoinWith(texts, seps, 1) = c

\* C11 (as claimed): for every content and sizes, the chunks joined with
\* the paragraph/sentence separators reconstruct the content, and non-empty
\* content never yields an empty chunk list.
C11_ChunksReconstructContent ==
    ChunkDone =>
        /\ Reconstructs(Texts(result), content)
        /\ content # <<>> => result # <<>>

\* C11 (amended): the chunks hold the words of the content (its maximal
\* runs of non-whitespace characters) exactly once each and in document
\* order, so content with a word never yields an empty chunk list; the
\* whitespace between and around the words is not kept.
C11_ChunksKeepWords ==
    ChunkDone =>
        /\ ChunkWords(result) = Words(content)
        /\ Words(content) # <<>> => result # <<>>

C11_Witness ==
    /\ ChunkDone
    /\ max_size > 0
    /\ Len(result) >= 3
    /\ \E i \in 1..Len(result) : result[i].units >= 2
    /\ Cardinality({Words(content)[i] : i \in 1..Len(Words(content))}) >= 3
    /\ ~Reconstructs(Texts(result), content)

\* The positions, among the words of all the texts, of the words of each
\* text: text i holds words lo..hi (hi = lo - 1 when it has none).
RECURSIVE SpansFrom(_, _, _)
SpansFrom(texts, i, lo) ==
    IF i > Len(texts) THEN <<>>
    ELSE LET n == Len(Words(texts[i]))
         IN  <<[lo |-> lo, hi |-> lo + n - 1]>> \o SpansFrom(texts, i + 1, lo + n)

WordSpans(texts) == SpansFrom(texts, 1, 1)

\* Span p lies within one of the spans qs (a span of no word always does).
WithinOne(p, qs) ==
    \/ p.hi < p.lo
    \/ \E j \in 1..Len(qs) : qs[j].lo <= p.lo /\ p.hi <= qs[j].hi

\* The chunks after the paragraph pass alone.
FirstPass(c, max, min) == Pack(SplitParagraphs(c), <<NL, NL>>, 2, max, min)

\* C12 (as claimed): every paragraph of the content of length <= max_size
\* lies entirely within one chunk (no chunk boundary falls inside it).
C12_ShortParagraphsUnsplit ==
    ChunkDone =>
        LET paras == SplitParagraphs(content)
            ps == WordSpans(paras)
            qs == WordSpans(Texts(result))
        IN  \A i \in 1..Len(paras) :
                Len(paras[i]) <= max_size => WithinOne(ps[i], qs)

\* C12 (amended): a paragraph of length <= max_size lies entirely within
\* one chunk unless min_size > 1 and the paragraph pass joined it with other
\* paragraphs into a chunk longer than max_size, which the sentence pass
\* splits again; so for min_size <= 1 no boundary falls inside it.
C12_ShortParagraphsUnsplitButBelowMin ==
    ChunkDone =>
        LET paras == SplitParagraphs(content)
            ps == WordSpans(paras)
            qs == WordSpans(Texts(result))
            first == FirstPass(content, max_size, min_size)
            fs == WordSpans(Texts(first))
        IN  \A i \in 1..Len(paras) :
                Len(paras[i]) <= max_size =>
                    \/ WithinOne(ps[i], qs)
                    \/ /\ min_size > 1
                       /\ \E j \in 1..Len(first) :
                             /\ fs[j].lo <= ps[i].lo /\ ps[i].hi <= fs[j].hi
                             /\ first[j].units >= 2
                             /\ Len(first[j].text) > max_size

C12_Witness ==
    LET paras == SplitParagraphs(content)
        ps == WordSpans(paras)
        qs == WordSpans(Texts(result))
    IN  /\ pc = "chunk_chapter_content"
        /\ max_size > 0
        /\ \E i \in 1..Len(paras) :
              Len(paras[i]) > max_size /\ ~WithinOne(ps[i], qs)
        /\ \E i \in 1..Len(paras) :
              /\ Len(paras[i]) <= max_size
              /\ Len(Words(paras[i])) >= 2
              /\ WithinOne(ps[i], qs)

(***************************************************************************)
(* The three Markdown cleaners on one document: clean_markdown_content of  *)
(* utils/helpers.py (title taken from the cleaned text), the one of        *)
(* bw_utils.py (title taken from the raw text) and                         *)
(* MarkdownCleaner.process_with_metadata (title from the raw text, its own *)
(* paragraph spacing).                                                     *)
(***************************************************************************)
MaxCleanLines == 3

\* bw_utils.clean_markdown_content
clean_markdown_content_bw_utils(c) ==
    [content |-> Reflow(FixLinks(NormalizeLineEndings(c))), title |-> ExtractTitle(c)]

\* One iteration of the loop of _fix_paragraph_spacing: a blank line is kept
\* only after a non-blank one.
SpacingLine(st, raw) ==
    LET line == RStrip(raw)
    IN  IF line = <<>>
        THEN [result |-> IF st.last_line # <<>> THEN Append(st.result, <<>>)
                         ELSE st.result,
              last_line |-> line]
        ELSE [result |-> Append(st.result, line), last_line |-> line]

RECURSIVE SpacingFrom(_, _, _)
SpacingFrom(st, lines, i) ==
    IF i > Len(lines) THEN st
    ELSE SpacingFrom(SpacingLine(st, lines[i]), lines, i + 1)

\* MarkdownCleaner._fix_paragraph_spacing
fix_paragraph_spacing(c) ==
    Join(SpacingFrom([result |-> <<>>, last_line |-> <<>>], Split(c, NL), 1).result,
         <<NL>>)

\* MarkdownCleaner.process_with_metadata
process_with_metadata(c) ==
    [content |-> fix_paragraph_spacing(FixLinks(NormalizeLineEndings(c))),
     title |-> ExtractTitle(c)]

\* The lines of the documents: blank, prose (indented, ending in "\r"), "# "
\* headings (with trailing space, with "\r", without text), list items, and
\* the two halves of a link whose text spans lines.
CleanShapes ==
    { <<>>, <<" ">>, <<"a">>, <<" ", "b">>, <<"c", "\r">>,
      <<"#", " ", "T">>, <<"#", " ", "T", " ">>, <<"#", " ">>, <<"#", " ", "R", "\r">>,
      <<"-", "x">>, <<" ", "*">>,
      <<"[", "l">>, <<"#", " ", "[", "h">>, <<" ", "m", "]", "(", "u", ")">> }

CleanDocs == {Join(d, <<NL>>) : d \in SeqsOf(CleanShapes, 1, MaxCleanLines)}

InitClean ==
    /\ pc = "start"
    /\ NoFiles
    /\ content \in CleanDocs
    /\ title = <<>>
    /\ book_title = <<>>
    /\ max_size = 0
    /\ min_size = 0
    /\ cleaned = <<>>
    /\ metadata = <<>>
    /\ result = <<>>

CleanMarkdownContentBwUtils ==
    /\ pc = "start"
    /\ cleaned' = clean_markdown_content_bw_utils(content).content
    /\ metadata' = clean_markdown_content_bw_utils(content).title
    /\ pc' = "cleaned_bw_utils"
    /\ UNCHANGED <<inputs, files, result>>

ProcessWithMetadata ==
    /\ pc = "start"
    /\ cleaned' = process_with_metadata(content).content
    /\ metadata' = process_with_metadata(content).title
    /\ pc' = "process_with_metadata"
    /\ UNCHANGED <<inputs, files, result>>

NextClean == CleanMarkdownContent \/ CleanMarkdownContentBwUtils \/ ProcessWithMetadata

SpecClean == InitClean /\ [][NextClean]_vars

(***************************************************************************)
(* Properties of the cleaners (checked under SpecClean).                   *)
(***************************************************************************)
\* One of the two cleaners with the reflow loop has run.
ReflowDone == pc \in {"cleaned", "cleaned_bw_utils"}

\* The lines the reflow loop reads: those of the content once its line
\* endings and links are normalized.
InputLines == Lines(FixLinks(NormalizeLineEndings(content)))

\* A non-blank line that is neither a heading nor a list item.
IsProse(line) == ~IsBlank(line) /\ ~IsSpecial(line)

RStripAll(ls) == [i \in 1..Len(ls) |-> RStrip(ls[i])]

CleanDone == pc \in {"cleaned", "cleaned_bw_utils", "process_with_metadata"}

\* t occurs in s.
Contains(s, t) ==
    \E p \in 1..(Len(s) - Len(t) + 1) : SubSeq(s, p, p + Len(t) - 1) = t

NoneOf(s, chars) == \A i \in 1..Len(s) : s[i] \notin chars

\* The links [text](url) of s whose text spans several lines: text without
\* brackets and with a newline, url without parentheses or newline.
MultiLineLinks(s) ==
    { [text |-> SubSeq(s, l[1] + 1, l[2] - 1), url |-> SubSeq(s, l[2] + 2, l[3] - 1)] :
        l \in { t \in (1..Len(s)) \X (1..Len(s)) \X (1..Len(s)) :
                  /\ t[1] < t[2] /\ t[2] + 1 < t[3]
                  /\ s[t[1]] = "[" /\ s[t[2]] = "]" /\ s[t[2] + 1] = "(" /\ s[t[3]] = ")"
                  /\ NoneOf(SubSeq(s, t[1] + 1, t[2] - 1), {"[", "]"})
                  /\ ~NoneOf(SubSeq(s, t[1] + 1, t[2] - 1), {NL})
                  /\ NoneOf(SubSeq(s, t[2] + 2, t[3] - 1), {"(", ")", NL}) } }

\* The link on one line: its words joined by single spaces, its url as is.
OneLine(link) ==
    <<"[">> \o Join(Words(link.text), <<" ">>) \o <<"]", "(">> \o link.url \o <<")">>

\* C14: for every link of the content whose text spans several lines, the
\* output of each cleaner contains the link on one line, the whitespace
\* runs of its text collapsed to single spaces, its text trimmed and its
\* url unchanged; so no line break or blank line is left inside it.
C14_MultiLineLinksJoined ==
    CleanDone =>
        \A link \in MultiLineLinks(content) :
            /\ Contains(cleaned, OneLine(link))
            /\ NoneOf(OneLine(link), {NL})

C14_Witness ==
    /\ CleanDone
    /\ \E link \in MultiLineLinks(content) :
          /\ Len(Words(link.text)) >= 2
          /\ Len(Lines(link.text)) >= 3
          /\ Contains(cleaned, OneLine(link))
          /\ ~Contains(content, OneLine(link))

\* The title a sequence of lines gives: the text after "# " of the first
\* line that starts with "# ", or "Untitled Document" when there is none.
TitleOfLines(ls) ==
    LET hs == {i \in 1..Len(ls) : StartsWith(ls[i], <<"#", " ">>)}
        h == CHOOSE x \in hs : \A y \in hs : x <= y
    IN  IF hs = {} THEN UntitledDocument ELSE SubSeq(ls[h], 3, Len(ls[h]))

C16_TitleCommutesWithCleaning ==
    CleanDone =>
        /\ ExtractTitle(content) = ExtractTitle(cleaned)
        /\ metadata = clean_markdown_content(content).title

(***************************************************************************)
(* TTS markup stripper: clean_markdown_for_tts (bw_utils.py) and           *)
(* TTSPreprocessor.process (text/processors.py).  Each is a list of        *)
(* re.sub passes; a pass is modelled by the match of its pattern that      *)
(* starts at a position p (its last index and its replacement), and Sub    *)
(* is re.sub: leftmost matches, left to right, without overlap.            *)
(***************************************************************************)
NoMatch == [end |-> 0, repl |-> <<>>]

Hit(e, r) == [end |-> e, repl |-> r]

\* The literal t stands in s at p.
At(s, p, t) == p + Len(t) - 1 <= Len(s) /\ SubSeq(s, p, p + Len(t) - 1) = t

\* The least element of a non-empty set of positions.
First(ps) == CHOOSE x \in ps : \A y \in ps : x <= y

\* First position at or after q where the literal t stands (0 when none).
FindLit(s, q, t) ==
    LET ps == {i \in q..Len(s) : At(s, i, t)}
    IN  IF ps = {} THEN 0 ELSE First(ps)

\* lit[^c]+c at p: the literal, one or more characters other than c, then c.
RunUntil(s, p, lit, c) ==
    LET q == p + Len(lit)
        j == FindIn(s, q, {c})
    IN  IF At(s, p, lit) /\ j <= Len(s) /\ j > q THEN Hit(j, <<>>) ELSE NoMatch

\* r"\[\]\{#[^}]+\}"
IdMarker(s, p) == RunUntil(s, p, <<"[", "]", "{", "#">>, "}")

\* The backquote character, written as a name: one element of a string.
Backquote == "backquote"

Fence == <<Backquote, Backquote, Backquote>>

HtmlFence == Fence \o <<"{", "=", "h", "t", "m", "l", "}">>

\* HtmlBlock that, without a closing fence, runs to the end of the text.
HtmlBlock_ToEnd(s, p) ==
    LET q == FindLit(s, p + Len(HtmlFence), Fence)
    IN  IF At(s, p, HtmlFence) THEN Hit(IF q > 0 THEN q + 2 ELSE Len(s), <<>>)
        ELSE NoMatch

\* r"```\{=html\}[\s\S]*?```"
HtmlBlock(s, p) ==
    LET q == FindLit(s, p + Len(HtmlFence), Fence)
    IN  IF At(s, p, HtmlFence) /\ q > 0 THEN Hit(q + 2, <<>>) ELSE NoMatch

\* r"::: \{[^}]+\}"
DivAttr(s, p) == RunUntil(s, p, <<":", ":", ":", " ", "{">>, "}")

\* r":::.*"
DivLine(s, p) ==
    IF At(s, p, <<":", ":", ":">>) THEN Hit(FindIn(s, p + 3, {NL}) - 1, <<>>)
    ELSE NoMatch

\* Where the lazy .*? that starts at k stops: the first position at or
\* after k, with no newline before it, where open, one or more non-'}' and
\* '}' stand (0 when none).
LazyToGroup(s, k, open) ==
    LET ps == {i \in k..Min(FindIn(s, k, {NL}), Len(s)) :
                  RunUntil(s, i, open, "}").end > 0}
    IN  IF ps = {} THEN 0 ELSE First(ps)

\* r"(#+ .*?) \{[^}]+\}" replaced by group 1
HeadingAttr(s, p) ==
    LET h == SkipIn(s, p, {"#"})
        k == LazyToGroup(s, h + 1, <<" ", "{">>)
    IN  IF p <= Len(s) /\ s[p] = "#" /\ h <= Len(s) /\ s[h] = " " /\ k > 0
        THEN Hit(RunUntil(s, k, <<" ", "{">>, "}").end, Slice(s, p, k - 1))
        ELSE NoMatch

\* r"!\[\]\([^)]+\)"
EmptyImage(s, p) == RunUntil(s, p, <<"!", "[", "]", "(">>, ")")

CoverMarker ==
    <<"{", ".", "x", "-", "e", "b", "o", "o", "k", "m", "a", "k", "e", "r",
      "-", "c", "o", "v", "e", "r", "}">>

\* r"\{\.x-ebookmaker-cover\}"
Cover(s, p) ==
    IF At(s, p, CoverMarker) THEN Hit(p + Len(CoverMarker) - 1, <<>>) ELSE NoMatch

\* r"\{\#[^}]+\}"
InlineId(s, p) == RunUntil(s, p, <<"{", "#">>, "}")

\* r"\[.*?\]\{[^}]+\}"
AttrSpan(s, p) ==
    LET k == LazyToGroup(s, p + 1, <<"]", "{">>)
    IN  IF p <= Len(s) /\ s[p] = "[" /\ k > 0
        THEN Hit(RunUntil(s, k, <<"]", "{">>, "}").end, <<>>)
        ELSE NoMatch

\* r"lang=\"[^\"]+\""
LangAttr(s, p) == RunUntil(s, p, <<"l", "a", "n", "g", "=", "\"">>, "\"")

\* r"\[([^\]]+)\]\([^)]+\)" replaced by group 1
LinkText(s, p) ==
    LET k == FindIn(s, p + 1, {"]"})
        m == RunUntil(s, k, <<"]", "(">>, ")")
    IN  IF p <= Len(s) /\ s[p] = "[" /\ k > p + 1 /\ m.end > 0
        THEN Hit(m.end, Slice(s, p + 1, k - 1))
        ELSE NoMatch

\* r"<[^>]+>"
HtmlTag(s, p) == RunUntil(s, p, <<"<">>, ">")

\* r"\{[^}]+\}"
Braces(s, p) == RunUntil(s, p, <<"{">>, "}")

\* mark([^c]+)mark replaced by group 1, where c is the character of mark:
\* r"\*\*([^*]+)\*\*", r"\*([^*]+)\*", r"__([^_]+)__", r"_([^_]+)_",
\* r"`([^`]+)`"
Emphasis(s, p, mark) ==
    LET q == p + Len(mark)
        k == FindIn(s, q, {mark[1]})
    IN  IF At(s, p, mark) /\ k > q /\ At(s, k, mark)
        THEN Hit(k + Len(mark) - 1, Slice(s, q, k - 1))
        ELSE NoMatch

\* r"\[\^[^\]]+\]"
Footnote(s, p) == RunUntil(s, p, <<"[", "^">>, "]")

Digits == {"0", "1", "2", "3", "4", "5", "6", "7", "8", "9"}

\* r"^\d+\.\s+" (MULTILINE)
ListNumber(s, p) ==
    LET d == SkipIn(s, p, Digits)
    IN  IF /\ AtLineStart(s, p) /\ d > p /\ d + 1 <= Len(s)
           /\ s[d] = "." /\ s[d + 1] \in WS
        THEN Hit(SkipIn(s, d + 1, WS) - 1, <<>>)
        ELSE NoMatch

Escapable ==
    {"\\", Backquote, "*", "_", "{", "}", "[", "]", "(", ")", "#", "+", "-", ".", "!"}

\* r"\\([\\`*_{}\[\]()#+\-.!])" replaced by group 1
Unescape(s, p) ==
    IF p + 1 <= Len(s) /\ s[p] = "\\" /\ s[p + 1] \in Escapable
    THEN Hit(p + 1, <<s[p + 1]>>)
    ELSE NoMatch

\* r"\\{2,}"
Backslashes(s, p) ==
    LET e == SkipIn(s, p, {"\\"}) - 1
    IN  IF e >= p + 1 THEN Hit(e, <<>>) ELSE NoMatch

Lower ==
    <<"a", "b", "c", "d", "e", "f", "g", "h", "i", "j", "k", "l", "m",
      "n", "o", "p", "q", "r", "s", "t", "u", "v", "w", "x", "y", "z">>

Upper ==
    <<"A", "B", "C", "D", "E", "F", "G", "H", "I", "J", "K", "L", "M",
      "N", "O", "P", "Q", "R", "S", "T", "U", "V", "W", "X", "Y", "Z">>

ToUpper(c) ==
    IF \E i \in 1..26 : Lower[i] = c
    THEN Upper[CHOOSE i \in 1..26 : Lower[i] = c]
    ELSE c

\* The literal t stands in s at p, letter case ignored (re.IGNORECASE).
AtIgnoreCase(s, p, t) ==
    /\ p + Len(t) - 1 <= Len(s)
    /\ \A i \in 1..Len(t) : ToUpper(s[p + i - 1]) = ToUpper(t[i])

GutenbergEbook ==
    <<" ", "O", "F", " ", "T", "H", "E", " ", "P", "R", "O", "J", "E", "C", "T",
      " ", "G", "U", "T", "E", "N", "B", "E", "R", "G", " ", "E", "B", "O", "O", "K">>

\* r"START OF THE PROJECT GUTENBERG EBOOK.*" and r"END OF ..." (IGNORECASE)
Boilerplate(s, p, word) ==
    IF AtIgnoreCase(s, p, word \o GutenbergEbook)
    THEN Hit(FindIn(s, p + Len(word \o GutenbergEbook), {NL}) - 1, <<>>)
    ELSE NoMatch

\* r"\\$" (MULTILINE): a backslash at the end of a line.
LineBackslash(s, p) ==
    IF p <= Len(s) /\ s[p] = "\\" /\ (p = Len(s) \/ s[p + 1] = NL)
    THEN Hit(p, <<>>)
    ELSE NoMatch

\* r"  +" replaced by " "
Spaces(s, p) ==
    LET e == SkipIn(s, p, {" "}) - 1
    IN  IF e >= p + 1 THEN Hit(e, <<" ">>) ELSE NoMatch

\* r"\n{3,}" replaced by "\n\n"
Newlines(s, p) ==
    LET e == SkipIn(s, p, {NL}) - 1
    IN  IF e >= p + 2 THEN Hit(e, <<NL, NL>>) ELSE NoMatch

\* r"\s+$" (MULTILINE): the greedy whitespace run at p, given back up to
\* its last newline unless it reaches the end of the text.
TrailingSpace(s, p) ==
    LET r == SkipIn(s, p, WS) - 1
        ns == {i \in (p + 1)..r : s[i] = NL}
    IN  IF r < p THEN NoMatch
        ELSE IF r = Len(s) THEN Hit(r, <<>>)
        ELSE IF ns # {} THEN Hit((CHOOSE i \in ns : \A j \in ns : j <= i) - 1, <<>>)
        ELSE NoMatch

\* The match of pass k that starts at p.
Match(k, s, p) ==
    CASE k = "id_marker" -> IdMarker(s, p)
      [] k = "html_block" -> HtmlBlock(s, p)
      [] k = "div_attr" -> DivAttr(s, p)
      [] k = "div_line" -> DivLine(s, p)
      [] k = "heading_attr" -> HeadingAttr(s, p)
      [] k = "empty_image" -> EmptyImage(s, p)
      [] k = "cover" -> Cover(s, p)
      [] k = "inline_id" -> InlineId(s, p)
      [] k = "attr_span" -> AttrSpan(s, p)
      [] k = "lang" -> LangAttr(s, p)
      [] k = "link" -> LinkText(s, p)
      [] k = "html_tag" -> HtmlTag(s, p)
      [] k = "braces" -> Braces(s, p)
      [] k = "bold_star" -> Emphasis(s, p, <<"*", "*">>)
      [] k = "italic_star" -> Emphasis(s, p, <<"*">>)
      [] k = "bold_underscore" -> Emphasis(s, p, <<"_", "_">>)
      [] k = "italic_underscore" -> Emphasis(s, p, <<"_">>)
      [] k = "code" -> Emphasis(s, p, <<Backquote>>)
      [] k = "footnote" -> Footnote(s, p)
      [] k = "list_number" -> ListNumber(s, p)
      [] k = "unescape" -> Unescape(s, p)
      [] k = "backslashes" -> Backslashes(s, p)
      [] k = "gutenberg_start" -> Boilerplate(s, p, <<"S", "T", "A", "R", "T">>)
      [] k = "gutenberg_end" -> Boilerplate(s, p, <<"E", "N", "D">>)
      [] k = "line_backslash" -> LineBackslash(s, p)
      [] k = "spaces" -> Spaces(s, p)
      [] k = "newlines" -> Newlines(s, p)
      [] k = "trailing_space" -> TrailingSpace(s, p)

\* re.sub of pass k over s, from position p on: the text up to the next
\* match is kept, the match replaced, and the scan resumes after it.
RECURSIVE SubFrom(_, _, _)
SubFrom(k, s, p) ==
    LET ps == {i \in p..Len(s) : Match(k, s, i).end > 0}
        q == First(ps)
        m == Match(k, s, q)
    IN  IF ps = {} THEN Slice(s, p, Len(s))
        ELSE Slice(s, p, q - 1) \o m.repl \o SubFrom(k, s, m.end + 1)

Sub(k, s) == SubFrom(k, s, 1)

\* The passes ks applied to s one after the other (each result is computed
\* before the next pass starts).
RECURSIVE Apply(_, _)
Apply(ks, s) ==
    IF ks = <<>> THEN s
    ELSE LET t == Sub(Head(ks), s)
         IN  IF Len(t) >= 0 THEN Apply(Tail(ks), t) ELSE t

\* MarkupPasses with the single-star pass before the double-star one.
MarkupPasses_ItalicFirst ==
    <<"id_marker", "html_block", "div_attr", "div_line", "heading_attr",
      "empty_image", "cover", "inline_id", "attr_span", "lang", "link",
      "html_tag", "braces", "italic_star", "bold_star", "bold_underscore",
      "italic_underscore">>

\* The passes the two strippers share, up to the emphasis ones and after.
MarkupPasses ==
    <<"id_marker", "html_block", "div_attr", "div_line", "heading_attr",
      "empty_image", "cover", "inline_id", "attr_span", "lang", "link",
      "html_tag", "braces", "bold_star", "italic_star", "bold_underscore",
      "italic_underscore">>

CleanupPasses ==
    <<"footnote", "list_number", "unescape", "backslashes", "gutenberg_start",
      "gutenberg_end", "line_backslash", "spaces", "newlines">>

\* bw_utils.clean_markdown_for_tts
clean_markdown_for_tts(c) == Strip(Apply(MarkupPasses \o CleanupPasses, c))

\* process without the pass that flattens inline code spans.
process_NoCode(c) ==
    RStrip(Strip(Apply(MarkupPasses \o CleanupPasses \o <<"trailing_space">>, c)))

\* TTSPreprocessor.process
process(c) ==
    RStrip(Strip(Apply(MarkupPasses \o <<"code">> \o CleanupPasses
                          \o <<"trailing_space">>, c)))

(***************************************************************************)
(* The strippers' inputs: up to MaxStripTokens pieces of one of four kinds  *)
(* (flat markup, paragraphs, malformed markup, links with attribute spans) *)
(* and the documents of the examples.                                      *)
(***************************************************************************)
MaxStripTokens == 3

\* "**b**", "*i*", "__u__", "_v_", "[]{#d}", "[t](w)", " ", "a"
FlatTokens ==
    { <<"*", "*", "b", "*", "*">>, <<"*", "i", "*">>,
      <<"_", "_", "u", "_", "_">>, <<"_", "v", "_">>,
      <<"[", "]", "{", "#", "d", "}">>, <<"[", "t", "]", "(", "w", ")">>,
      <<" ">>, <<"a">> }

\* Prose, one to three newlines, a blank.
ParaTokens ==
    { <<"a">>, <<"b", ".">>, <<NL>>, <<NL, NL>>, <<NL, NL, NL>>, <<" ">> }

\* An opening HTML fence, a closing fence, a tag, an opening bracket, an
\* opening brace, prose, a newline.
MalformedTokens ==
    { HtmlFence, Fence, <<"<", "d", ">">>, <<"[", "x">>, <<"{", "y">>,
      <<"a">>, <<NL>> }

\* A link "[t](w)", an attribute span "[s]{c}", a blank, prose.
SpanTokens ==
    { <<"[", "t", "]", "(", "w", ")">>, <<"[", "s", "]", "{", "c", "}">>,
      <<" ">>, <<"a">> }

DocsOf(tokens) == {Concat(d) : d \in SeqsOf(tokens, 0, MaxStripTokens)}

FlatDocs == DocsOf(FlatTokens)

ParaDocs == DocsOf(ParaTokens)

MalformedDocs == DocsOf(MalformedTokens)

SpanDocs == DocsOf(SpanTokens)

\* "**Bold** and *italic* text with [link](http://example.com) and []{#id}"
FormattingExample ==
    <<"*", "*", "B", "o", "l", "d", "*", "*", " ", "a", "n", "d", " ", "*",
      "i", "t", "a", "l", "i", "c", "*", " ", "t", "e", "x", "t", " ", "w",
      "i", "t", "h", " ", "[", "l", "i", "n", "k", "]", "(", "h", "t", "t",
      "p", ":", "/", "/", "e", "x", "a", "m", "p", "l", "e", ".", "c", "o",
      "m", ")", " ", "a", "n", "d", " ", "[", "]", "{", "#", "i", "d", "}">>

\* "Normal text\n```{=html}\n<div>HTML content</div>\n```\nMore text"
HtmlExample ==
    <<"N", "o", "r", "m", "a", "l", " ", "t", "e", "x", "t", "\n", Backquote, Backquote,
      Backquote, "{", "=", "h", "t", "m", "l", "}", "\n", "<", "d", "i", "v", ">",
      "H", "T", "M", "L", " ", "c", "o", "n", "t", "e", "n", "t", "<", "/",
      "d", "i", "v", ">", "\n", Backquote, Backquote, Backquote, "\n", "M", "o", "r", "e", " ",
      "t", "e", "x", "t">>

\* "**Bold** and *italic* text with `code` and [link](http://example.com)
\* and []{#id}"
CodeExample ==
    <<"*", "*", "B", "o", "l", "d", "*", "*", " ", "a", "n", "d", " ", "*",
      "i", "t", "a", "l", "i", "c", "*", " ", "t", "e", "x", "t", " ", "w",
      "i", "t", "h", " ", Backquote, "c", "o", "d", "e", Backquote, " ", "a", "n", "d",
      " ", "[", "l", "i", "n", "k", "]", "(", "h", "t", "t", "p", ":", "/",
      "/", "e", "x", "a", "m", "p", "l", "e", ".", "c", "o", "m", ")", " ",
      "a", "n", "d", " ", "[", "]", "{", "#", "i", "d", "}">>

InitStrip ==
    /\ pc = "start"
    /\ NoFiles
    /\ content \in FlatDocs \cup ParaDocs \cup MalformedDocs \cup SpanDocs
                      \cup {FormattingExample, HtmlExample, CodeExample}
    /\ title = <<>>
    /\ book_title = <<>>
    /\ max_size = 0
    /\ min_size = 0
    /\ cleaned = <<>>
    /\ metadata = <<>>
    /\ result = <<>>

CleanMarkdownForTts ==
    /\ pc = "start"
    /\ cleaned' = clean_markdown_for_tts(content)
    /\ pc' = "clean_markdown_for_tts"
    /\ UNCHANGED <<inputs, files, metadata, result>>

Process ==
    /\ pc = "start"
    /\ cleaned' = process(content)
    /\ pc' = "process"
    /\ UNCHANGED <<inputs, files, metadata, result>>

NextStrip == CleanMarkdownForTts \/ Process

SpecStrip == InitStrip /\ [][NextStrip]_vars

(***************************************************************************)
(* Claims about the strippers (SpecStrip).                                 *)
(***************************************************************************)
StripDone == pc \in {"clean_markdown_for_tts", "process"}

\* The flat construct that starts at p, with the prose it stands for: an
\* emphasis of one of the four marks, an identifier marker, a link.
Construct(s, p) ==
    LET ms == << Emphasis(s, p, <<"*", "*">>), Emphasis(s, p, <<"*">>),
                 Emphasis(s, p, <<"_", "_">>), Emphasis(s, p, <<"_">>),
                 IdMarker(s, p), LinkText(s, p) >>
        hits == {i \in 1..Len(ms) : ms[i].end > 0}
    IN  IF hits = {} THEN NoMatch ELSE ms[First(hits)]

\* s read once from left to right, every construct replaced by its prose.
RECURSIVE FlatFrom(_, _)
FlatFrom(s, p) ==
    LET ps == {i \in p..Len(s) : Construct(s, i).end > 0}
        q == First(ps)
        m == Construct(s, q)
    IN  IF ps = {} THEN Slice(s, p, Len(s))
        ELSE Slice(s, p, q - 1) \o m.repl \o FlatFrom(s, m.end + 1)

FlatPlain(s) == FlatFrom(s, 1)

RECURSIVE JoinSpace(_)
JoinSpace(ws) ==
    IF ws = <<>> THEN <<>>
    ELSE IF Len(ws) = 1 THEN ws[1]
    ELSE ws[1] \o <<" ">> \o JoinSpace(Tail(ws))

\* "Bold and italic text with link and"
FormattingExampleProse ==
    <<"B", "o", "l", "d", " ", "a", "n", "d", " ", "i", "t", "a", "l", "i",
      "c", " ", "t", "e", "x", "t", " ", "w", "i", "t", "h", " ", "l", "i",
      "n", "k", " ", "a", "n", "d">>

RECURSIVE FlatSpans(_, _)
FlatSpans(s, p) ==
    LET ps == {i \in p..Len(s) : Construct(s, i).end > 0}
        q == First(ps)
    IN  IF ps = {} THEN <<>>
        ELSE <<[lo |-> q, hi |-> Construct(s, q).end]>>
                 \o FlatSpans(s, Construct(s, q).end + 1)

\* Two emphasis constructs of the same mark character stand end to start.
Abutting(s) ==
    LET sp == FlatSpans(s, 1)
    IN  \E i \in 1..(Len(sp) - 1) :
            /\ sp[i].hi + 1 = sp[i + 1].lo
            /\ s[sp[i].lo] \in {"*", "_"}
            /\ s[sp[i].lo] = s[sp[i + 1].lo]

NewlineRuns(s) == {i \in 1..Len(s) : s[i] = NL /\ (i = 1 \/ s[i - 1] # NL)}

\* The length of the run of newlines that starts at i.
RunLength(s, i) == SkipIn(s, i, {NL}) - i

\* The paragraph breaks of s: the runs of two or more newlines inside s,
\* leading and trailing whitespace of s apart.
ParagraphBreaks(s) ==
    {i \in NewlineRuns(Strip(s)) : RunLength(Strip(s), i) >= 2}

\* C18: each stripper normalizes paragraph boundaries: its output has no
\* run of three or more newlines, and it has as many paragraph breaks (runs
\* of two or more newlines between text) as the input, so that paragraphs
\* separated by blank lines in the input are separated by exactly one blank
\* line in the output.
C18_ParagraphBreaksNormalized ==
    (StripDone /\ content \in ParaDocs) =>
        /\ \A i \in NewlineRuns(cleaned) : RunLength(cleaned, i) <= 2
        /\ Cardinality(ParagraphBreaks(cleaned)) = Cardinality(ParagraphBreaks(content))

\* The positions of s where the character c stands.
Occurrences(s, c) == {i \in 1..Len(s) : s[i] = c}

\* Where the unterminated fence of s opens: an opening HTML fence with no
\* fence after it (0 when s has none).
UnterminatedFence(s) ==
    LET p == FindLit(s, 1, HtmlFence)
    IN  IF p > 0 /\ FindLit(s, p + Len(HtmlFence), Fence) = 0 THEN p ELSE 0

\* The text of s after its unterminated fence.
AfterFence(s) == Slice(s, UnterminatedFence(s) + Len(HtmlFence), Len(s))

None == <<"None">>

\* f"Pandoc error: {result.stderr}"
PandocError == <<"Pandoc error">>

\* f"Error running pandoc: {str(e)}"
ErrorRunningPandoc == <<"Error running pandoc">>

\* f"Error processing markdown: {str(e)}"
ErrorProcessingMarkdown == <<"Error processing markdown">>

safe_title == sanitize_filename(metadata)

\* f"{safe_title}_processed.md"
processed_md ==
    safe_title \o <<"_", "p", "r", "o", "c", "e", "s", "s", "e", "d", ".", "m", "d">>

\* f"{safe_title}.epub"
output_epub == safe_title \o <<".", "e", "p", "u", "b">>

\* os.path.join(UPLOAD_FOLDER, f"{safe_title}.epub"): the entry of that name.
final_output == output_epub

debug_md == processed_md

\* "# T", "a", "# a/b"
PublishDocs == { <<"#", " ", "T">>, <<"a">>, <<"#", " ", "a", "/", "b">> }

\* What UPLOAD_FOLDER may hold at a name before the call: nothing, a file
\* of an earlier call, a directory.
EntriesAt(name) ==
    { {}, {[name |-> name, kind |-> "file", written |-> FALSE]},
      {[name |-> name, kind |-> "dir", written |-> FALSE]} }

InitPublish ==
    /\ pc = "start"
    /\ content \in PublishDocs
    /\ debug \in BOOLEAN
    /\ \E e \in EntriesAt(sanitize_filename(clean_markdown_content(content).title)
                             \o <<".", "e", "p", "u", "b">>),
          m \in EntriesAt(sanitize_filename(clean_markdown_content(content).title)
                             \o <<"_", "p", "r", "o", "c", "e", "s", "s", "e", "d",
                                  ".", "m", "d">>) :
          uploads = e \cup m
    /\ temp_dir = {}
    /\ pandoc_calls = 0
    /\ requests = <<>>
    /\ output_dir = {}
    /\ title = <<>>
    /\ book_title = <<>>
    /\ max_size = 0
    /\ min_size = 0
    /\ cleaned = <<>>
    /\ metadata = <<>>
    /\ result = <<>>

\* except Exception as e: return None, f"Error processing markdown: ..."
\* (the with block is left on the way: the workspace is removed).
Except ==
    /\ result' = <<None, ErrorProcessingMarkdown>>
    /\ temp_dir' = {}
    /\ pc' = "returned"

\* os.rename(src, dst) into UPLOAD_FOLDER, when it succeeds: dst is not a
\* directory; a file of that name is replaced.
Renamed(src, dst) ==
    /\ \A f \in uploads : f.name = dst => f.kind # "dir"
    /\ uploads' = {f \in uploads : f.name # dst}
                      \cup {[name |-> dst, kind |-> "file", written |-> TRUE]}
    /\ temp_dir' = temp_dir \ {src}

\* with create_temp_workspace() as temp_dir:
CreateTempWorkspace ==
    /\ pc = "cleaned"
    /\ \/ /\ temp_dir' = {}
          /\ pc' = "workspace"
          /\ UNCHANGED result
       \/ Except
    /\ UNCHANGED <<inputs, cleaned, metadata, uploads, pandoc_calls, requests, output_dir>>

\* with open(processed_md, "w") as f: f.write(modified_content)
WriteProcessedMd ==
    /\ pc = "workspace"
    /\ \/ /\ temp_dir' = temp_dir \cup {processed_md}
          /\ pc' = "written"
          /\ UNCHANGED result
       \/ Except
    /\ UNCHANGED <<inputs, cleaned, metadata, uploads, pandoc_calls, requests, output_dir>>

\* success, error = run_pandoc_command(...); if not success: return None, error
RunPandocCommand ==
    /\ pc = "written"
    /\ pandoc_calls' = pandoc_calls + 1
    /\ \/ /\ temp_dir' = temp_dir \cup {output_epub}
          /\ pc' = "converted"
          /\ UNCHANGED result
       \/ /\ result' \in {<<None, PandocError>>, <<None, ErrorRunningPandoc>>}
          /\ temp_dir' = {}
          /\ pc' = "returned"
    /\ UNCHANGED <<inputs, cleaned, metadata, uploads, requests, output_dir>>

\* os.rename(output_epub, final_output)
MoveEpub ==
    /\ pc = "converted"
    /\ \/ /\ Renamed(output_epub, final_output)
          /\ pc' = "moved"
          /\ UNCHANGED result
       \/ /\ Except
          /\ UNCHANGED uploads
    /\ UNCHANGED <<inputs, cleaned, metadata, pandoc_calls, requests, output_dir>>

\* if debug: os.rename(processed_md, debug_md)
MoveProcessedMd ==
    /\ pc = "moved"
    /\ debug
    /\ \/ /\ Renamed(processed_md, debug_md)
          /\ pc' = "debug_moved"
          /\ UNCHANGED result
       \/ /\ Except
          /\ UNCHANGED uploads
    /\ UNCHANGED <<inputs, cleaned, metadata, pandoc_calls, requests, output_dir>>

\* return final_output, None
Return ==
    /\ \/ pc = "moved" /\ ~debug
       \/ pc = "debug_moved"
    /\ result' = <<final_output, None>>
    /\ temp_dir' = {}
    /\ pc' = "returned"
    /\ UNCHANGED <<inputs, cleaned, metadata, uploads, pandoc_calls, requests, output_dir>>

\* The first statement is the cleaner's call (CleanMarkdownContent).
NextPublish ==
    \/ CleanMarkdownContent
    \/ CreateTempWorkspace
    \/ WriteProcessedMd
    \/ RunPandocCommand
    \/ MoveEpub
    \/ MoveProcessedMd
    \/ Return

SpecPublish == InitPublish /\ [][NextPublish]_vars

(***************************************************************************)
(* Claims about the publisher (SpecPublish).                               *)
(***************************************************************************)
\* C20: process_markdown_content runs the converter at most once; it
\* returns exactly one of (path, None) and (None, error); when it returns a
\* path, a file of that name is in the upload folder; when it returns an
\* error, no file written by the call is left in the upload folder.
C20_OneOutcomeAndNoPartialOutput ==
    /\ pandoc_calls <= 1
    /\ pc = "returned" =>
           /\ (result[1] = None) # (result[2] = None)
           /\ result[2] = None =>
                  \E f \in uploads : f.name = result[1] /\ f.kind = "file"
           /\ result[2] # None => \A f \in uploads : ~f.written

(***************************************************************************)
(* The web front end: the index handler of app.py, one record of requests  *)
(* per POST request.  A request goes through process_markdown_content      *)
(* (its conversion in a workspace of its own, then the move into           *)
(* UPLOAD_FOLDER), the error test, the existence test, send_file and the   *)
(* finally clause.  pc is the server's mode: "serial" handles the requests *)
(* one after the other, "threaded" interleaves their steps.  An entry of   *)
(* UPLOAD_FOLDER here is a record: its name, the document it was made from *)
(* and the request that moved it there.                                    *)
(***************************************************************************)
MaxRequests == 2

\* "", "# T", "# T\nx", "a"
IndexDocs ==
    { <<>>, <<"#", " ", "T">>, <<"#", " ", "T", NL, "x">>, <<"a">> }

\* os.path.join(UPLOAD_FOLDER, f"{safe_title}.epub") for a document.
EpubOf(c) ==
    sanitize_filename(clean_markdown_content(c).title) \o <<".", "e", "p", "u", "b">>

\* "Please provide either markdown content or upload a file"
PleaseProvide == <<"Please provide either markdown content or upload a file">>

\* "Error: Output file was not created"
NotCreated == <<"Error: Output file was not created">>

\* render_template("index.html") after flash(message)
Page(message) == [kind |-> "page", message |-> message]

\* The request r may take a step.
Turn(r) ==
    /\ r \in DOMAIN requests
    /\ pc = "serial" => \A j \in 1..(r - 1) : requests[j].pc = "done"

\* os.path.exists(path)
Exists(path) == \E f \in uploads : f.name = path

\* UPLOAD_FOLDER after os.remove(path), kept as it is.
Removed_Nothing(path) == uploads

\* UPLOAD_FOLDER after os.remove(path)
Removed(path) == {f \in uploads : f.name # path}

InitIndex ==
    /\ pc = "serial"
    /\ requests \in [1..MaxRequests ->
           [pc : {"post"}, content : IndexDocs, output_file : {None},
            error : {None}, response : {None}]]
    /\ uploads = {}
    /\ debug = FALSE
    /\ temp_dir = {}
    /\ pandoc_calls = 0
    /\ output_dir = {}
    /\ title = <<>>
    /\ book_title = <<>>
    /\ content = <<>>
    /\ max_size = 0
    /\ min_size = 0
    /\ cleaned = <<>>
    /\ metadata = <<>>
    /\ result = <<>>

InitIndexThreaded ==
    /\ pc = "threaded"
    /\ requests \in [1..MaxRequests ->
           [pc : {"post"}, content : IndexDocs, output_file : {None},
            error : {None}, response : {None}]]
    /\ uploads = {}
    /\ debug = FALSE
    /\ temp_dir = {}
    /\ pandoc_calls = 0
    /\ output_dir = {}
    /\ title = <<>>
    /\ book_title = <<>>
    /\ content = <<>>
    /\ max_size = 0
    /\ min_size = 0
    /\ cleaned = <<>>
    /\ metadata = <<>>
    /\ result = <<>>

\* What no step of a request changes.
fixed == <<pc, inputs, cleaned, metadata, result, temp_dir, pandoc_calls, output_dir>>

\* if not markdown_content and not uploaded_file: flash(...); return
Post ==
    \E r \in DOMAIN requests :
        /\ Turn(r)
        /\ requests[r].pc = "post"
        /\ requests' = [requests EXCEPT ![r] =
               IF requests[r].content = <<>>
               THEN [@ EXCEPT !.pc = "done", !.response = Page(PleaseProvide)]
               ELSE [@ EXCEPT !.pc = "convert"]]
        /\ UNCHANGED <<fixed, uploads>>

\* process_markdown_content up to the converter's return: the EPUB is in
\* the call's own workspace, or the call returns (None, error).
Convert ==
    \E r \in DOMAIN requests :
        /\ Turn(r)
        /\ requests[r].pc = "convert"
        /\ \/ requests' = [requests EXCEPT ![r].pc = "move"]
           \/ \E e \in {PandocError, ErrorRunningPandoc, ErrorProcessingMarkdown} :
                  requests' = [requests EXCEPT ![r].pc = "returned", ![r].error = e]
        /\ UNCHANGED <<fixed, uploads>>

\* os.rename(output_epub, final_output); return final_output, None
Move ==
    \E r \in DOMAIN requests :
        /\ Turn(r)
        /\ requests[r].pc = "move"
        /\ \/ /\ uploads' = Removed(EpubOf(requests[r].content)) \cup
                     {[name |-> EpubOf(requests[r].content),
                       doc |-> requests[r].content, by |-> r]}
              /\ requests' = [requests EXCEPT ![r].pc = "returned",
                     ![r].output_file = EpubOf(requests[r].content)]
           \/ /\ requests' = [requests EXCEPT ![r].pc = "returned",
                     ![r].error = ErrorProcessingMarkdown]
              /\ UNCHANGED uploads
        /\ UNCHANGED fixed

\* if error: flash(error); return render_template("index.html")
CheckError ==
    \E r \in DOMAIN requests :
        /\ Turn(r)
        /\ requests[r].pc = "returned"
        /\ requests' = [requests EXCEPT ![r] =
               IF requests[r].error # None
               THEN [@ EXCEPT !.pc = "done", !.response = Page(requests[r].error)]
               ELSE [@ EXCEPT !.pc = "check"]]
        /\ UNCHANGED <<fixed, uploads>>

\* if not output_file or not os.path.exists(output_file): flash(...); return
CheckExists ==
    \E r \in DOMAIN requests :
        /\ Turn(r)
        /\ requests[r].pc = "check"
        /\ requests' = [requests EXCEPT ![r] =
               IF ~Exists(requests[r].output_file)
               THEN [@ EXCEPT !.pc = "done", !.response = Page(NotCreated)]
               ELSE [@ EXCEPT !.pc = "send"]]
        /\ UNCHANGED <<fixed, uploads>>

\* send_file(output_file, ...): the file that stands at the path is opened
\* for the response; a missing file raises.
SendFile ==
    \E r \in DOMAIN requests :
        /\ Turn(r)
        /\ requests[r].pc = "send"
        /\ requests' = [requests EXCEPT ![r].pc = "finally", ![r].response =
               IF Exists(requests[r].output_file)
               THEN [kind |-> "epub",
                     doc |-> (CHOOSE f \in uploads : f.name = requests[r].output_file).doc]
               ELSE [kind |-> "raised", message |-> <<"FileNotFoundError">>]]
        /\ UNCHANGED <<fixed, uploads>>

\* finally: if os.path.exists(output_file):
Finally ==
    \E r \in DOMAIN requests :
        /\ Turn(r)
        /\ requests[r].pc = "finally"
        /\ requests' = [requests EXCEPT ![r].pc =
               IF Exists(requests[r].output_file) THEN "remove" ELSE "done"]
        /\ UNCHANGED <<fixed, uploads>>

\* os.remove(output_file): a file removed in the meantime raises, and the
\* exception replaces the response.
Remove ==
    \E r \in DOMAIN requests :
        /\ Turn(r)
        /\ requests[r].pc = "remove"
        /\ uploads' = Removed(requests[r].output_file)
        /\ requests' = [requests EXCEPT ![r] =
               IF Exists(requests[r].output_file)
               THEN [@ EXCEPT !.pc = "done"]
               ELSE [@ EXCEPT !.pc = "done", !.response =
                        [kind |-> "raised", message |-> <<"FileNotFoundError">>]]]
        /\ UNCHANGED fixed

NextIndex ==
    \/ Post
    \/ Convert
    \/ Move
    \/ CheckError
    \/ CheckExists
    \/ SendFile
    \/ Finally
    \/ Remove

SpecIndex == InitIndex /\ [][NextIndex]_vars

SpecIndexThreaded == InitIndexThreaded /\ [][NextIndex]_vars

(***************************************************************************)
(* Claims about the index handler.                                         *)
(***************************************************************************)
Completed == {r \in DOMAIN requests : requests[r].pc = "done"}

\* C21: with the requests handled one after the other, a completed request
\* has answered with an EPUB or with a page carrying a message; the file of
\* a request that answered with an EPUB (made from its own document) is no
\* longer in the upload folder, a request that answered with a message sent
\* no file, and the upload folder holds no file moved there by a completed
\* request.
C21_NoEpubLeftBehind ==
    pc = "serial" =>
        /\ \A r \in Completed :
               /\ requests[r].response.kind \in {"epub", "page"}
               /\ requests[r].response.kind = "epub" =>
                      /\ requests[r].response.doc = requests[r].content
                      /\ \A f \in uploads : f.by # r
               /\ requests[r].response.kind = "page" =>
                      requests[r].response.message # None
        /\ \A f \in uploads : f.by \notin Completed

\* C21 witness: two requests for documents of the same title have both been
\* answered with an EPUB, and the upload folder is empty.
C21_Witness ==
    /\ pc = "serial"
    /\ Completed = DOMAIN requests
    /\ \A r \in DOMAIN requests : requests[r].response.kind = "epub"
    /\ \E r, q \in DOMAIN requests :
           /\ r # q
           /\ requests[r].output_file = requests[q].output_file
           /\ requests[r].content # requests[q].content
    /\ uploads = {}

\* C29: with the requests handled concurrently, every completed request
\* whose process_markdown_content call returned a path has answered with
\* the EPUB made from its own document (so it has not answered "Output file
\* was not created", and nothing was raised).
C29_ConcurrentRequestsDoNotInterfere ==
    pc = "threaded" =>
        \A r \in Completed :
            requests[r].output_file # None =>
                /\ requests[r].response.kind = "epub"
                /\ requests[r].response.doc = requests[r].content

(***************************************************************************)
(* TTSProcessor.prepare_content: the stripper, the line-walk splitter, the *)
(* skip of a first chapter that is empty or only the book title, and one   *)
(* file per chapter, named after the chapter title.  A file of output_dir  *)
(* is a record: its path (the name inside the directory) and its text.     *)
(***************************************************************************)
MaxPrepareLines == 3

\* The characters of [<>:"/\\|?*]
Invalid == {"<", ">", ":", "\"", "/", "\\", "|", "?", "*"}

\* re.sub(r"_+", "_", s)
RECURSIVE CollapseUnderscores(_)
CollapseUnderscores(s) ==
    IF s = <<>> THEN <<>>
    ELSE IF Len(s) >= 2 /\ s[1] = "_" /\ s[2] = "_" THEN CollapseUnderscores(Tail(s))
    ELSE <<s[1]>> \o CollapseUnderscores(Tail(s))

\* s.replace(a, b) for characters a and b
ReplaceChar(s, a, b) == [i \in 1..Len(s) |-> IF s[i] = a THEN b ELSE s[i]]

\* utils/filesystem.sanitize_filename
sanitize_filename_filesystem(filename) ==
    LET kept == SelectSeq(filename, LAMBDA ch : ch \notin Invalid)
        collapsed == CollapseUnderscores(ReplaceChar(kept, " ", "_"))
    IN  RStripChars(Slice(collapsed, 1, Min(255, Len(collapsed))), {"."})

\* chapter_title.split(":", 1)[1].strip() when the title has a colon
AfterColon(t) ==
    IF \E i \in 1..Len(t) : t[i] = ":"
    THEN Strip(Slice(t, FindIn(t, 1, {":"}) + 1, Len(t)))
    ELSE t

\* re.sub(r"([a-z])([A-Z])", r"\1-\2", s)
RECURSIVE HyphenateCamel(_)
HyphenateCamel(s) ==
    IF s = <<>> THEN <<>>
    ELSE IF Len(s) >= 2 /\ (\E k \in 1..26 : Lower[k] = s[1])
                        /\ (\E k \in 1..26 : Upper[k] = s[2])
    THEN <<s[1], "-">> \o HyphenateCamel(Tail(s))
    ELSE <<s[1]>> \o HyphenateCamel(Tail(s))

\* str(i) for i > 0
RECURSIVE Decimal(_)
Decimal(i) ==
    LET digit == <<"0", "1", "2", "3", "4", "5", "6", "7", "8", "9">>[(i % 10) + 1]
    IN  IF i < 10 THEN <<digit>> ELSE Decimal(i \div 10) \o <<digit>>

\* f"{filename}.txt" for chapter i of title t
ChapterFile(t, i) ==
    LET sanitized == sanitize_filename_filesystem(AfterColon(t))
        filename == IF sanitized = <<>>
                    THEN <<"c", "h", "a", "p", "t", "e", "r", "_">> \o Decimal(i)
                    ELSE sanitized
    IN  ReplaceChar(ReplaceChar(HyphenateCamel(filename), " ", "-"), "_", "-")
            \o <<".", "t", "x", "t">>

\* SkipFirst that takes any lone top-level heading for the book title.
SkipFirst_AnyHeading(chapters, book) ==
    /\ chapters # <<>>
    /\ \/ Strip(chapters[1].content) = <<>>
       \/ /\ StartsWith(Strip(chapters[1].content), <<"#", " ">>)
          /\ \A i \in 1..Len(Strip(chapters[1].content)) :
                 Strip(chapters[1].content)[i] # NL

\* The first chapter is empty or is only "# " and the book title.
SkipFirst(chapters, book) ==
    /\ chapters # <<>>
    /\ \/ Strip(chapters[1].content) = <<>>
       \/ Strip(chapters[1].content) = <<"#", " ">> \o book

\* The chapters prepare_content returns, each with its file_path.
prepare_content(c, book) ==
    LET Prepare(split) ==
            LET chapters == IF SkipFirst(split, book) THEN Tail(split) ELSE split
            IN  [i \in 1..Len(chapters) |->
                    [title |-> chapters[i].title, content |-> chapters[i].content,
                     file_path |-> ChapterFile(chapters[i].title, i)]]
    IN  Once(Prepare, split_chapters(process(c), book))

\* The directory after `with open(chapter["file_path"], "w")` for every
\* chapter in order: the last write to a path is the one that stays.
Saved(chapters) ==
    { [path |-> chapters[i].file_path, text |-> chapters[i].content] :
        i \in {k \in 1..Len(chapters) :
                 \A j \in (k + 1)..Len(chapters) :
                     chapters[j].file_path # chapters[k].file_path} }

\* Blank, "# T", "# U", "## A", "## A: x", "## B: x", "## A:", "## aB", prose.
PrepareShapes ==
    { <<>>, <<"#", " ", "T">>, <<"#", " ", "U">>, <<"#", "#", " ", "A">>,
      <<"#", "#", " ", "A", ":", " ", "x">>, <<"#", "#", " ", "B", ":", " ", "x">>,
      <<"#", "#", " ", "A", ":">>, <<"#", "#", " ", "a", "B">>, <<"a">>, <<"b">> }

PrepareDocs == {Join(d, <<NL>>) : d \in SeqsOf(PrepareShapes, 0, MaxPrepareLines)}

InitPrepare ==
    /\ pc = "start"
    /\ NoFiles
    /\ content \in PrepareDocs
    /\ book_title \in {<<"T">>, <<"B">>}
    /\ title = <<>>
    /\ max_size = 0
    /\ min_size = 0
    /\ cleaned = <<>>
    /\ metadata = <<>>
    /\ result = <<>>

PrepareContent ==
    /\ pc = "start"
    /\ cleaned' = process(content)
    /\ result' = prepare_content(content, book_title)
    /\ output_dir' = Saved(result')
    /\ pc' = "prepare_content"
    /\ UNCHANGED <<inputs, metadata, uploads, temp_dir, pandoc_calls, requests>>

NextPrepare == PrepareContent

SpecPrepare == InitPrepare /\ [][NextPrepare]_vars

(***************************************************************************)
(* Claims about prepare_content (SpecPrepare).                             *)
(***************************************************************************)
Prepared == pc = "prepare_content"

\* The lines of c that are not empty.
NonBlankLines(c) == SelectSeq(Split(c, NL), LAMBDA l : l # <<>>)

\* c is one level-1 heading line among blank lines.
OnlyTitleLine(c) ==
    /\ Len(NonBlankLines(c)) = 1
    /\ StartsWith(NonBlankLines(c)[1], <<"#", " ">>)

C28_EveryChapterHasItsOwnFile ==
    Prepared =>
        /\ \A i \in 1..Len(result) :
               \E f \in output_dir :
                   f.path = result[i].file_path /\ f.text = result[i].content
        /\ \A i, j \in 1..Len(result) :
               i # j => result[i].file_path # result[j].file_path

\* "Bold and italic text with code and link and"
CodeExampleProse ==
    <<"B", "o", "l", "d", " ", "a", "n", "d", " ", "i", "t", "a", "l", "i",
      "c", " ", "t", "e", "x", "t", " ", "w", "i", "t", "h", " ", "c", "o",
      "d", "e", " ", "a", "n", "d", " ", "l", "i", "n", "k", " ", "a", "n",
      "d">>

C26_LinkTextKept ==
    (StripDone /\ content \in SpanDocs) =>
        /\ Cardinality(Occurrences(cleaned, "t")) = Cardinality(Occurrences(content, "t"))
        /\ \A ch \in {"[", "]", "(", ")", "w"} : Occurrences(cleaned, ch) = {}

(***************************************************************************)
(* The line walk's book-title line (checked under SpecSplit).              *)
(***************************************************************************)
\* Line i of the content opens a chapter of chs: it is the chapter's heading
\* and the first line of its span.
OpensChapter(chs, c, i) ==
    \E k \in 1..Len(chs) :
        /\ chs[k].head = <<Lines(c)[i]>>
        /\ i \in chs[k].src
        /\ \A a \in chs[k].src : a >= i

\* C24 (as claimed): in the line walk, a "# " heading line that comes after
\* an earlier heading line of any level is not consumed as the book title:
\* it opens a chapter and is the first line of that chapter's span.
C24_TopLevelAfterHeadingOpensChapter ==
    pc = "split_chapters" =>
        \A i \in 1..Len(Lines(content)) :
            ( /\ StartsWith(Lines(content)[i], <<"#", " ">>)
              /\ \E j \in 1..(i - 1) : IsHeadingLine(Lines(content)[j]) ) =>
                OpensChapter(result, content, i)

(***************************************************************************)
(* The pattern scan's chapter starts and titles (checked under SpecSplit). *)
(***************************************************************************)
\* A line that starts with one or two '#' followed by a blank or a tab.
IsChapterHeading(line) ==
    \/ Len(line) >= 2 /\ line[1] = "#" /\ line[2] \in WS \ {NL}
    \/ Len(line) >= 3 /\ line[1] = "#" /\ line[2] = "#" /\ line[3] \in WS \ {NL}

\* C25 (as claimed): in the pattern scan every line that starts with one or
\* two '#' followed by whitespace opens a chapter, no chapter is opened by a
\* line of three or more '#', and each chapter's title is the text of the
\* line that opened it ('#' markers and surrounding whitespace stripped),
\* also when that line has only markers.
C25_ChapterPerHeadingLineTitledFromIt ==
    pc = "split_by_chapters" =>
        /\ \A i \in 1..Len(Lines(content)) :
              IsChapterHeading(Lines(content)[i]) =>
                  OpensChapter(result, content, i)
        /\ \A k \in 1..Len(result) :
              result[k].head # <<>> =>
                  /\ ~StartsWith(result[k].head[1], <<"#", "#", "#">>)
                  /\ result[k].title = HeadingTitle(result[k].head[1])

(***************************************************************************)
(* Empty chunks (checked under SpecChunk).                                 *)
(***************************************************************************)
\* Every paragraph of c holds a character that is not whitespace.
NoBlankParagraph(c) ==
    \A i \in 1..Len(SplitParagraphs(c)) : Strip(SplitParagraphs(c)[i]) # <<>>

\* C30 (as claimed): for content longer than max_size > 0 whose paragraphs
\* all hold a non-whitespace character, and for every min_size (zero and
\* negative included), both chunkers return no empty chunk: every chunk
\* holds a non-whitespace character.
C30_NoEmptyChunk ==
    ( /\ ChunkDone
      /\ max_size > 0
      /\ Len(content) > max_size
      /\ NoBlankParagraph(content) ) =>
        \A i \in 1..Len(result) : Strip(result[i].text) # <<>>

(***************************************************************************)
(* TTS-ready Markdown writer: process_file of clean_for_tts.py, for a      *)
(* Markdown input file (the EPUB branch only changes where the content is  *)
(* read from).  max_size holds the argument max_chars.  The source writes  *)
(* files and returns their paths; the model keeps with each written file   *)
(* what the loop had in hand:                                              *)
(*   chapter, part   i + 1 and j + 1 (part 0 for an unchunked chapter),    *)
(*   chunk           the chunk the file was written from,                  *)
(*   units           the number of paragraphs joined into the chunk.       *)
(***************************************************************************)
MaxFileLines == 5

\* str.split("\n\n"): the pieces between the occurrences of "\n\n", found
\* from left to right without overlap.
RECURSIVE SplitBlankFrom(_, _, _)
SplitBlankFrom(s, p, start) ==
    IF p > Len(s) THEN <<Slice(s, start, Len(s))>>
    ELSE IF s[p] = NL /\ p + 1 <= Len(s) /\ s[p + 1] = NL
    THEN <<Slice(s, start, p - 1)>> \o SplitBlankFrom(s, p + 2, p + 2)
    ELSE SplitBlankFrom(s, p + 1, start)

\* One iteration of `for paragraph in chapter_content.split("\n\n")`.
AddParagraph(st, paragraph, max_chars) ==
    IF Len(st.current_chunk) + Len(paragraph) > max_chars
    THEN [chunks |-> IF st.current_chunk # <<>>
                     THEN Append(st.chunks,
                                 [text |-> st.current_chunk, units |-> st.units])
                     ELSE st.chunks,
          current_chunk |-> paragraph, units |-> 1]
    ELSE IF st.current_chunk # <<>>
    THEN [st EXCEPT !.current_chunk = @ \o <<NL, NL>> \o paragraph,
                    !.units = @ + 1]
    ELSE [st EXCEPT !.current_chunk = paragraph, !.units = 1]

RECURSIVE AddParagraphs(_, _, _, _)
AddParagraphs(st, paragraphs, k, max_chars) ==
    IF k > Len(paragraphs) THEN st
    ELSE AddParagraphs(AddParagraph(st, paragraphs[k], max_chars),
                       paragraphs, k + 1, max_chars)

\* The chunks of one chapter, with the last chunk added if it exists.
ChapterChunks(chapter_content, max_chars) ==
    LET st == AddParagraphs([chunks |-> <<>>, current_chunk |-> <<>>, units |-> 0],
                            SplitBlankFrom(chapter_content, 1, 1), 1, max_chars)
    IN  IF st.current_chunk # <<>>
        THEN Append(st.chunks, [text |-> st.current_chunk, units |-> st.units])
        ELSE st.chunks

TtsMd == <<"_", "t", "t", "s", ".", "m", "d">>

\* f"{safe_title}_ch{i + 1}_part{j + 1}_tts.md" and the text written to it.
ChunkFile(book, chapter_title, i, j, chunk) ==
    [path |-> ReplaceChar(book, " ", "_") \o <<"_", "c", "h">> \o Decimal(i)
                  \o <<"_", "p", "a", "r", "t">> \o Decimal(j) \o TtsMd,
     text |-> <<"#", " ">> \o chapter_title \o <<" ", "(", "P", "a", "r", "t", " ">>
                  \o Decimal(j) \o <<")", NL, NL>> \o chunk.text,
     chapter |-> i, part |-> j, chunk |-> chunk.text, units |-> chunk.units]

\* f"{safe_title}_ch{i + 1}_tts.md", holding the whole chapter.
WholeChapterFile(book, i, chapter_content) ==
    [path |-> ReplaceChar(book, " ", "_") \o <<"_", "c", "h">> \o Decimal(i) \o TtsMd,
     text |-> chapter_content,
     chapter |-> i, part |-> 0, chunk |-> chapter_content, units |-> 0]

\* The files of chapters i.. in the order they are written.
RECURSIVE ChapterFiles(_, _, _, _)
ChapterFiles(chapters, i, book, max_chars) ==
    IF i > Len(chapters) THEN <<>>
    ELSE LET Files(chunks) ==
                 [j \in 1..Len(chunks) |->
                     ChunkFile(book, chapters[i].title, i, j, chunks[j])]
         IN  (IF max_chars > 0
              THEN Once(Files, ChapterChunks(chapters[i].content, max_chars))
              ELSE <<WholeChapterFile(book, i, chapters[i].content)>>)
             \o ChapterFiles(chapters, i + 1, book, max_chars)

\* process_file(input_file, book_title, split_chapters, max_chars), c the
\* text of input_file.
process_file(c, book, split, max_chars) ==
    LET Chapters(chapters) == ChapterFiles(chapters, 1, book, max_chars)
        Whole(text) ==
            << [path |-> ReplaceChar(book, " ", "_") \o TtsMd, text |-> text,
                chapter |-> 0, part |-> 0, chunk |-> text, units |-> 0] >>
    IN  IF split
        THEN Once(Chapters, split_by_chapters(clean_markdown_for_tts(c), book))
        ELSE Once(Whole, clean_markdown_for_tts(c))

\* The output directory after the files were written, in order.
Written(fs) ==
    { [path |-> fs[i].path, text |-> fs[i].text] :
        i \in {k \in 1..Len(fs) :
                 \A j \in (k + 1)..Len(fs) : fs[j].path # fs[k].path} }

\* The writer's inputs: files of up to MaxFileLines lines (headings, short
\* paragraphs, blank lines) and max_chars from 0 up.
FileShapes == { <<>>, <<"a">>, <<"b", "b">>, <<"#", "#", " ", "A">> }

FileDocs == {Join(d, <<NL>>) : d \in SeqsOf(FileShapes, 1, MaxFileLines)}

InitProcessFile ==
    /\ pc = "start"
    /\ NoFiles
    /\ content \in FileDocs
    /\ book_title \in {<<"M", "y", " ", "B">>}
    /\ max_size \in 0..MaxSizeBound
    /\ title = <<>>
    /\ min_size = 0
    /\ cleaned = <<>>
    /\ metadata = <<>>
    /\ result = <<>>

\* process_file(..., split_chapters=True, max_chars=max_size)
ProcessFileChapters ==
    /\ pc = "start"
    /\ cleaned' = clean_markdown_for_tts(content)
    /\ result' = process_file(content, book_title, TRUE, max_size)
    /\ output_dir' = Written(result')
    /\ pc' = "process_file_chapters"
    /\ UNCHANGED <<inputs, metadata, uploads, temp_dir, pandoc_calls, requests>>

\* process_file(..., split_chapters=False)
ProcessFileWhole ==
    /\ pc = "start"
    /\ cleaned' = clean_markdown_for_tts(content)
    /\ result' = process_file(content, book_title, FALSE, max_size)
    /\ output_dir' = Written(result')
    /\ pc' = "process_file"
    /\ UNCHANGED <<inputs, metadata, uploads, temp_dir, pandoc_calls, requests>>

NextProcessFile == ProcessFileChapters \/ ProcessFileWhole

SpecProcessFile == InitProcessFile /\ [][NextProcessFile]_vars

\* The parts written for chapter i, in the order they were written.
PartsOf(fs, i) == SelectSeq(fs, LAMBDA f : f.chapter = i)

\* C27 (as claimed): with chapter splitting and max_chars > 0, a written
\* chunk that joins two or more paragraphs is at most max_chars long (only a
\* chunk of one paragraph may be longer), and the chunks of each chapter are
\* written in document order as parts 1..k: joined by blank lines they are
\* the chapter's content.
C27_JoinedChunksWithinMaxChars ==
    (pc = "process_file_chapters" /\ max_size > 0) =>
        /\ \A k \in 1..Len(result) :
              result[k].units >= 2 => Len(result[k].chunk) <= max_size
        /\ LET chapters == split_by_chapters(cleaned, book_title)
           IN  \A i \in 1..Len(chapters) :
                   LET parts == PartsOf(result, i)
                   IN  /\ \A j \in 1..Len(parts) : parts[j].part = j
                       /\ Join([j \in 1..Len(parts) |-> parts[j].chunk], <<NL, NL>>)
                              = chapters[i].content

====
